---------------------------- MODULE Spec2Model ----------------------------
(***************************************************************************)
(* workgraph: workspace dependency graph, affected-set computation, wave   *)
(* planning, the bounded-concurrency wave executor and the watch loop.     *)
(*                                                                         *)
(* Project names are modelled by their rank under String.localeCompare:    *)
(* project i sorts before project j iff i < j.                             *)
(***************************************************************************)
EXTENDS Integers, Sequences, FiniteSets, TLC

\* ---------------------------------------------------------------- bounds
MaxProjects == 3
MaxEdges == 4
MaxConcurrency == 2
MaxDeliveries == 3
MaxGenerators == 2
MaxDecls == 2

Projects == 1..MaxProjects

VARIABLES
    deps,              \* graph.deps: project -> set of its dependencies
    \* --- direct calls of the pure functions
    changedProjects,   \* the set handed to the function
    affectedOut,       \* result of getAffectedProjects
    planOut,           \* result of planWaves (ok = FALSE: it threw)
    \* --- executePlan (executor.ts)
    waves,             \* argument: sequence of waves, each a sequence of projects
    projects,          \* argument: keys of the projects map
    concurrency,       \* options.concurrency
    dryRun,            \* options.dryRun
    epc,               \* where executePlan / runWithConcurrency stands
    waveIndex,         \* executePlan: index of the current wave (1-based)
    itemIdx,           \* runWithConcurrency: next item of the for loop (1-based)
    executing,         \* runWithConcurrency: the set of pending promises p
    ready,             \* resolved fn(item) promises whose .then callback is queued
    settled,           \* a promise of the awaited Promise.race has settled
    running,           \* child processes spawned by runCommand and not yet closed
    waveResults,       \* runWithConcurrency: results
    results,           \* executePlan: results
    overallSuccess,    \* executePlan: overallSuccess
    currentStep,       \* executePlan: currentStep
    ret,               \* executePlan: the returned BuildResult
    events,            \* onStart / onComplete callbacks, in emission order
    begun,             \* history: projects whose fn(item) has been called
    ended,             \* history: projects whose fn(item) promise has resolved
    failed,            \* history: projects whose build command exited non-zero
    \* --- watch command (cli.ts)
    filterSet,         \* the projects matchesFilter accepts (all, without --filter)
    sources,           \* config.sources in declaration order: per generator, the
                       \* projects whose being affected makes shouldRunGenerator true
    isBuilding,        \* let isBuilding
    pendingChanges,    \* let pendingChanges: [null |-> TRUE] or a set
    buildCount,        \* let buildCount
    active,            \* handleChanges calls suspended on a generator or on executePlan
    deliveries,        \* history: number of onChange deliveries
    starts,            \* history: number of times isBuilding was set to true
    releases,          \* history: number of times isBuilding was set to false
    during,            \* history: union of the sets delivered since the last start
    lastChanged,       \* history: changedProjects of the latest started attempt
    \* --- buildGraph and detectCycles (graph.ts)
    known,             \* keys of the projects map handed to buildGraph
    declared,          \* manifests: entries <<project, dependency map, name>>
    graphOut,          \* result of buildGraph
    keysOrder,         \* graph.projects.keys() in iteration order
    cyclesOut,         \* result of detectCycles
    \* --- generator declarations (types.ts)
    rootSources,       \* workgraph.sources of the root manifest, in key order
    projectSources,    \* workgraph.sources of each project's manifest
    \* --- createWatcher (watcher.ts)
    watcherOn,         \* createWatcher has been called
    caller,            \* who called it: the watch command or a library user
    supplied,          \* options.ignorePatterns as passed (undefined or a set)
    ignorePatterns,    \* the `ignored` option handed to chokidar
    debounceMs,        \* options.debounceMs
    changedFiles,      \* let changedFiles
    debounceTimer,     \* let debounceTimer: id of the last timer set, 0 for null
    timers,            \* pending setTimeout timers: id -> ms left
    fsEvents,          \* history: number of file events handled
    sinceEvent,        \* history: ms since the last file event
    expiries,          \* history: number of timers that fired
    lastFlush,         \* history: batch and onChange calls of the last processChanges
    onChangeCalls,     \* history: number of onChange calls
    \* --- build command (cli.ts)
    bpc,               \* where the build action stands
    genIdx,            \* index in sources of the generator whose child runs, or 0
    genLog,            \* history: generator runs, in order
    exitCode,          \* process exit code (-1 while running)
    \* --- identifier resolution (affected.ts, cli.ts)
    layout,            \* per project: how its name and its path are spelled
    idents,            \* the identifiers handed to the function
    resolvedOut,       \* result of resolveProjectNames
    shouldRunOut,      \* result of shouldRunGenerator
    \* --- generator targets and dev servers of the watch command (cli.ts)
    targets,           \* per root generator: the project its `target` names, 0 if none
    apps,              \* resolvedApps: the projects the [apps...] argument resolves to
    devScripts,        \* the projects whose package.json has a `dev` script
    depsToBuilt,       \* the set built before the dev servers start
    devProcesses,      \* the dev tasks spawned so far, in order (project of each)
    dpc,               \* where the watch action stands
    kills,             \* history: process.kill calls of cleanup, in order
    \* --- file attribution (workspace.ts)
    projectDirs,       \* per project: the segments of its absolute directory
    filePath,          \* the segments of the absolute path handed to the function
    ownerOut           \* result of getProjectFromPath (0 for null)

pureVars == <<changedProjects, affectedOut, planOut>>

execVars == <<waves, projects, concurrency, dryRun, epc, waveIndex, itemIdx,
              executing, ready, settled, running, waveResults, results,
              overallSuccess, currentStep, ret, events, begun, ended, failed>>

watchVars == <<filterSet, sources, isBuilding, pendingChanges, buildCount, active,
               deliveries, starts, releases, during, lastChanged>>

graphVars == <<known, declared, graphOut, keysOrder, cyclesOut>>

regVars == <<rootSources, projectSources>>

fsVars == <<watcherOn, caller, supplied, ignorePatterns, debounceMs, changedFiles,
            debounceTimer, timers, fsEvents, sinceEvent, expiries, lastFlush,
            onChangeCalls>>

buildVars == <<bpc, genIdx, genLog, exitCode>>

pathVars == <<projectDirs, filePath, ownerOut>>

nameVars == <<layout, idents, resolvedOut, shouldRunOut, pathVars>>

devVars == <<targets, apps, devScripts, depsToBuilt, devProcesses, dpc, kills>>

restVars == <<nameVars, devVars>>

moreVars == <<graphVars, regVars, fsVars, buildVars, restVars>>

vars == <<deps, pureVars, execVars, watchVars, moreVars>>

\* ------------------------------------------------------------ graph.ts

\* rdeps as buildGraph fills it: the mirror of deps.
rdepsOf(d) == [p \in Projects |-> {q \in Projects : p \in d[q]}]

EdgeCount(d) == Cardinality({e \in Projects \X Projects : e[2] \in d[e[1]]})

\* Dependency maps buildGraph can produce (self-edges are preserved).
Graphs == {d \in [Projects -> SUBSET Projects] : EdgeCount(d) <= MaxEdges}

\* ----------------------------------------------------------- helpers

\* [...set] sorted with localeCompare
SortAsc(S) ==
    LET sort[T \in SUBSET S] ==
            IF T = {} THEN <<>>
            ELSE LET m == CHOOSE x \in T : \A y \in T : x <= y
                 IN <<m>> \o sort[T \ {m}]
    IN sort[S]

Range(s) == {s[i] : i \in 1..Len(s)}

\* ---------------------------------------------------------- affected.ts

\* for (const dependent of dependents) if (!affected.has(dependent)) queue.push(dependent)
PushDependents(queue, dependents, affected) ==
    queue \o SortAsc({x \in dependents : x \notin affected})

\* while (queue.length > 0) { ... }, from a queue and a visited set on
AffectedLoop(queue0, affected0, rdeps) ==
    LET loop[st \in Seq(Projects) \X SUBSET Projects] ==
            LET queue == st[1]
                affected == st[2]
            IN IF queue = <<>> THEN affected
               ELSE LET current == Head(queue)
                        rest == Tail(queue)
                    IN IF current \in affected
                       THEN loop[<<rest, affected>>]
                       ELSE loop[<<PushDependents(rest, rdeps[current],
                                                  affected \cup {current}),
                                   affected \cup {current}>>]
    IN loop[<<queue0, affected0>>]

getAffectedDirectOnly(changed, rdeps) ==
    changed \cup UNION {rdeps[c] : c \in changed}

getAffectedProjects(changed, rdeps) ==
    AffectedLoop(SortAsc(changed), {}, rdeps)

\* ----------------------------------------------------------- planner.ts

InDegreeAll(node, affected, d) == Cardinality(d[node])

\* [...nodeDeps].filter(d => affected.has(d)).length
InDegreeOf(node, affected, d) ==
    Cardinality({x \in d[node] : x \in affected})

WaveOfOffByOne(remaining, inDegree) == {n \in remaining : inDegree[n] <= 1}

WaveOfSingle(remaining, inDegree) ==
    LET free == {n \in remaining : inDegree[n] = 0}
    IN {n \in free : \A m \in free : n <= m}

\* [...remaining].filter(n => inDegree.get(n) === 0)
WaveOf(remaining, inDegree) == {n \in remaining : inDegree[n] = 0}

\* inDegree after: for (const other of remaining) if (otherDeps.has(node)) decrement
Decrement(inDegree, remaining, node, d) ==
    [o \in DOMAIN inDegree |->
        IF o \in remaining /\ node \in d[o] THEN inDegree[o] - 1 ELSE inDegree[o]]

\* for (const node of wave) { remaining.delete(node); decrement dependents }
\* returns <<remaining, inDegree>>
RemoveWave(wave0, remaining0, inDegree0, d) ==
    LET loop[st \in Seq(Projects) \X (SUBSET Projects)
                    \X [DOMAIN inDegree0 -> Int]] ==
            IF st[1] = <<>> THEN <<st[2], st[3]>>
            ELSE loop[<<Tail(st[1]),
                        st[2] \ {Head(st[1])},
                        Decrement(st[3], st[2] \ {Head(st[1])}, Head(st[1]), d)>>]
    IN loop[<<wave0, remaining0, inDegree0>>]

\* while (remaining.size > 0) { ... }; a throw is [ok |-> FALSE]
PlanLoop(remaining0, inDegree0, acc0, d) ==
    LET loop[st \in (SUBSET Projects) \X [DOMAIN inDegree0 -> Int]
                    \X Seq(Seq(Projects))] ==
            IF st[1] = {} THEN [ok |-> TRUE, waves |-> st[3]]
            ELSE IF WaveOf(st[1], st[2]) = {}
                 THEN [ok |-> FALSE, waves |-> <<>>]
                 ELSE loop[<<RemoveWave(SortAsc(WaveOf(st[1], st[2])),
                                        st[1], st[2], d)[1],
                             RemoveWave(SortAsc(WaveOf(st[1], st[2])),
                                        st[1], st[2], d)[2],
                             Append(st[3], SortAsc(WaveOf(st[1], st[2])))>>]
    IN loop[<<remaining0, inDegree0, acc0>>]

planWaves(affected, d) ==
    IF affected = {} THEN [ok |-> TRUE, waves |-> <<>>]
    ELSE PlanLoop(affected,
                  [n \in affected |-> InDegreeOf(n, affected, d)],
                  <<>>, d)

\* ------------------------------------------------- pure-function calls

PureIdle ==
    /\ changedProjects = {}
    /\ affectedOut = [called |-> FALSE, set |-> {}]
    /\ planOut = [called |-> FALSE, ok |-> FALSE, waves |-> <<>>]

ExecIdle ==
    /\ waves = <<>>
    /\ projects = {}
    /\ concurrency = 1
    /\ epc = "off"
    /\ waveIndex = 0
    /\ itemIdx = 0
    /\ executing = {}
    /\ ready = <<>>
    /\ settled = FALSE
    /\ running = {}
    /\ waveResults = <<>>
    /\ results = <<>>
    /\ overallSuccess = TRUE
    /\ currentStep = 0
    /\ ret = [returned |-> FALSE, success |-> FALSE, results |-> <<>>]
    /\ events = <<>>
    /\ begun = {}
    /\ ended = {}
    /\ failed = {}

WatchIdle ==
    /\ filterSet = Projects
    /\ sources = <<>>
    /\ isBuilding = FALSE
    /\ pendingChanges = [null |-> TRUE, set |-> {}]
    /\ buildCount = 0
    /\ active = {}
    /\ deliveries = 0
    /\ starts = 0
    /\ releases = 0
    /\ during = {}
    /\ lastChanged = {}

GraphIdle ==
    /\ known = {}
    /\ declared = {}
    /\ graphOut = [called |-> FALSE, deps |-> <<>>, rdeps |-> <<>>]
    /\ keysOrder = <<>>
    /\ cyclesOut = [called |-> FALSE, null |-> TRUE, cycles |-> <<>>]

RegIdle ==
    /\ rootSources = <<>>
    /\ projectSources = [p \in Projects |-> <<>>]

WatcherIdle ==
    /\ watcherOn = FALSE
    /\ caller = "none"
    /\ supplied = [undefined |-> TRUE, patterns |-> {}]
    /\ ignorePatterns = {}
    /\ debounceMs = 0
    /\ changedFiles = <<>>
    /\ debounceTimer = 0
    /\ timers = <<>>
    /\ fsEvents = 0
    /\ sinceEvent = 0
    /\ expiries = 0
    /\ lastFlush = [batch |-> <<>>, calls |-> <<>>]
    /\ onChangeCalls = 0

BuildIdle ==
    /\ bpc = "off"
    /\ genIdx = 0
    /\ genLog = <<>>
    /\ exitCode = -1

PathIdle ==
    /\ projectDirs = <<>>
    /\ filePath = <<>>
    /\ ownerOut = [called |-> FALSE, project |-> 0]

NameIdle ==
    /\ PathIdle
    /\ layout = <<>>
    /\ idents = {}
    /\ resolvedOut = [called |-> FALSE, set |-> {}]
    /\ shouldRunOut = [called |-> FALSE, value |-> FALSE]

DevIdle ==
    /\ targets = <<>>
    /\ apps = {}
    /\ devScripts = {}
    /\ depsToBuilt = {}
    /\ devProcesses = <<>>
    /\ dpc = "off"
    /\ kills = <<>>

RestIdle ==
    /\ NameIdle
    /\ DevIdle

MoreIdle ==
    /\ GraphIdle
    /\ RegIdle
    /\ WatcherIdle
    /\ RestIdle
    /\ BuildIdle

InitPure ==
    /\ deps \in Graphs
    /\ changedProjects \in SUBSET Projects
    /\ affectedOut = [called |-> FALSE, set |-> {}]
    /\ planOut = [called |-> FALSE, ok |-> FALSE, waves |-> <<>>]
    /\ ExecIdle
    /\ dryRun = FALSE
    /\ WatchIdle
    /\ MoreIdle

CallGetAffected ==
    /\ ~affectedOut.called
    /\ affectedOut' = [called |-> TRUE,
                       set |-> getAffectedProjects(changedProjects, rdepsOf(deps))]
    /\ UNCHANGED <<deps, changedProjects, planOut, execVars, watchVars>>
    /\ UNCHANGED moreVars

CallPlanWaves ==
    /\ ~planOut.called
    /\ planOut' = [called |-> TRUE,
                   ok |-> planWaves(changedProjects, deps).ok,
                   waves |-> planWaves(changedProjects, deps).waves]
    /\ UNCHANGED <<deps, changedProjects, affectedOut, execVars, watchVars>>
    /\ UNCHANGED moreVars

NextPure == CallGetAffected \/ CallPlanWaves

SpecPure == InitPure /\ [][NextPure]_vars

\* ------------------------------------------- properties: pure functions

\* No non-empty set of projects in which every member has a dependency inside
\* the set: the graph has no directed cycle (self-loops included).
Acyclic(d) ==
    \A C \in SUBSET Projects : C # {} => \E n \in C : d[n] \cap C = {}

Occurrences(ws, p) ==
    Cardinality({<<k, i>> \in (1..Len(ws)) \X (1..MaxProjects) :
                   i <= Len(ws[k]) /\ ws[k][i] = p})

InWaves(ws) == UNION {Range(ws[k]) : k \in 1..Len(ws)}

\* C8: on an acyclic graph planWaves returns (does not throw) for every affected
\* set A, and the waves partition A: each project of A is in exactly one wave
\* and no other project is in any wave.
C8_PlanWavesPartitionsAffected ==
    (planOut.called /\ Acyclic(deps)) =>
        /\ planOut.ok
        /\ InWaves(planOut.waves) = changedProjects
        /\ \A p \in changedProjects : Occurrences(planOut.waves, p) = 1

\* C8 witness: an acyclic graph planned in at least two waves, where a planned
\* project also depends on a project outside the affected set.
C8_Witness ==
    /\ planOut.called
    /\ Acyclic(deps)
    /\ Len(planOut.waves) >= 2
    /\ \E p \in changedProjects : ~(deps[p] \subseteq changedProjects)

\* C9: every dependency, inside the affected set, of a project of wave k lies in
\* an earlier wave; so two distinct projects of one wave never depend on each other.
C9_DepsInEarlierWaves ==
    (planOut.called /\ planOut.ok) =>
        LET ws == planOut.waves
        IN /\ \A k \in 1..Len(ws) : \A p \in Range(ws[k]) :
                \A x \in deps[p] \cap changedProjects :
                    \E j \in 1..(k - 1) : x \in Range(ws[j])
           /\ \A k \in 1..Len(ws) : \A x, y \in Range(ws[k]) :
                x # y => (x \notin deps[y] /\ y \notin deps[x])

\* C9 witness: a plan of at least two waves whose later wave depends on the first.
C9_Witness ==
    /\ planOut.called
    /\ planOut.ok
    /\ Len(planOut.waves) >= 2
    /\ \E p \in Range(planOut.waves[2]) :
          deps[p] \cap Range(planOut.waves[1]) # {}

ClosedUnderRdeps(C, rdeps) == \A x \in C : rdeps[x] \subseteq C

\* The smallest superset of S closed under rdeps: the intersection of all of them.
LeastClosed(S, rdeps) ==
    {x \in Projects :
       \A C \in SUBSET Projects :
          (S \subseteq C /\ ClosedUnderRdeps(C, rdeps)) => x \in C}

\* C10: getAffectedProjects(S, rdeps) is the smallest set that contains S and is
\* closed under reverse dependency edges.
C10_AffectedIsLeastClosure ==
    affectedOut.called =>
        affectedOut.set = LeastClosed(changedProjects, rdepsOf(deps))

\* C10 witness: the result holds a transitive dependent that is neither a seed
\* nor a direct dependent of a seed.
C10_Witness ==
    /\ affectedOut.called
    /\ \E x \in affectedOut.set :
          /\ x \notin changedProjects
          /\ \A c \in changedProjects : x \notin rdepsOf(deps)[c]

\* ----------------------------------------------------------- executor.ts

\* Wave sequences handed to executePlan: non-empty waves of distinct projects.
NonEmptyWaves == {S \in SUBSET Projects : S # {}}

ExecPlans ==
    UNION {{[k \in 1..n |-> SortAsc(f[k])] :
              f \in {g \in [1..n -> NonEmptyWaves] :
                       \A i, j \in 1..n : i # j => g[i] \cap g[j] = {}}} :
           n \in 0..MaxProjects}

\* The projects map: complete, or lacking one project named by a wave.
ProjectMaps == {Projects} \cup {Projects \ {p} : p \in Projects}

InitExec ==
    /\ deps = [p \in Projects |-> {}]
    /\ PureIdle
    /\ WatchIdle
    /\ waves \in ExecPlans
    /\ projects \in ProjectMaps
    /\ concurrency \in 1..MaxConcurrency
    /\ dryRun \in BOOLEAN
    /\ epc = "call"
    /\ waveIndex = 0
    /\ itemIdx = 0
    /\ executing = {}
    /\ ready = <<>>
    /\ settled = FALSE
    /\ running = {}
    /\ waveResults = <<>>
    /\ results = <<>>
    /\ overallSuccess = TRUE
    /\ currentStep = 0
    /\ ret = [returned |-> FALSE, success |-> FALSE, results |-> <<>>]
    /\ events = <<>>
    /\ begun = {}
    /\ ended = {}
    /\ failed = {}
    /\ MoreIdle

AtLimitOffByOne(size, limit) == size > limit

\* if (executing.size >= concurrency)
AtLimit(size, limit) == size >= limit

WaveSettledEarly(ex) == TRUE

\* await Promise.all(executing)
WaveSettled(ex) == ex = {}

StopNever(success) == FALSE

\* if (!overallSuccess) break
StopAfterWave(success) == ~success

StartEvent(p) == [kind |-> "start", project |-> p, success |-> TRUE]
CompleteEvent(p, ok) == [kind |-> "complete", project |-> p, success |-> ok]

\* executePlan is called: the code up to the first runWithConcurrency call.
executePlan ==
    /\ epc = "call"
    /\ IF Len(waves) = 0
       THEN /\ epc' = "done"
            /\ ret' = [returned |-> TRUE, success |-> overallSuccess, results |-> results]
            /\ UNCHANGED waveIndex
       ELSE /\ epc' = "loop"
            /\ waveIndex' = 1
            /\ UNCHANGED ret
    /\ itemIdx' = 1
    /\ UNCHANGED <<deps, pureVars, watchVars, waves, projects, concurrency, dryRun, executing,
                   ready, settled, running, waveResults, results, overallSuccess,
                   currentStep, events, begun, ended, failed>>
    /\ UNCHANGED moreVars

\* runWithConcurrency, one iteration of the for loop: fn(item) runs to its first
\* await (or returns), p is added to executing, and the size test decides
\* whether the loop awaits Promise.race.
runWithConcurrency ==
    /\ epc = "loop"
    /\ itemIdx <= Len(waves[waveIndex])
    /\ LET item == waves[waveIndex][itemIdx]
       IN /\ IF item \notin projects
             THEN \* Project not found: resolved at once, no callbacks
                  /\ ready' = Append(ready, [project |-> item, success |-> FALSE])
                  /\ ended' = ended \cup {item}
                  /\ UNCHANGED <<currentStep, events, running>>
             ELSE /\ currentStep' = currentStep + 1
                  /\ events' = Append(events, StartEvent(item))
                  /\ IF dryRun
                     THEN /\ ready' = Append(ready, [project |-> item, success |-> TRUE])
                          /\ ended' = ended \cup {item}
                          /\ UNCHANGED running
                     ELSE /\ running' = running \cup {item}
                          /\ UNCHANGED <<ready, ended>>
          /\ begun' = begun \cup {item}
          /\ executing' = executing \cup {item}
          /\ itemIdx' = itemIdx + 1
          /\ epc' = IF AtLimit(Cardinality(executing'), concurrency)
                    THEN "race" ELSE "loop"
    /\ settled' = FALSE
    /\ UNCHANGED <<deps, pureVars, watchVars, waves, projects, concurrency, dryRun, waveIndex,
                   waveResults, results, overallSuccess, ret, failed>>
    /\ UNCHANGED moreVars

\* The for loop is over: await Promise.all(executing).
AwaitAll ==
    /\ epc = "loop"
    /\ itemIdx > Len(waves[waveIndex])
    /\ epc' = "all"
    /\ UNCHANGED <<deps, pureVars, watchVars, waves, projects, concurrency, dryRun, waveIndex,
                   itemIdx, executing, ready, settled, running, waveResults, results,
                   overallSuccess, currentStep, ret, events, begun, ended, failed>>
    /\ UNCHANGED moreVars

\* The .then callback of p: results.push(result); executing.delete(p).
ThenCallback ==
    /\ epc \in {"race", "all"}
    /\ ready # <<>>
    /\ waveResults' = Append(waveResults, Head(ready))
    /\ executing' = executing \ {Head(ready).project}
    /\ ready' = Tail(ready)
    /\ settled' = (epc = "race")
    /\ UNCHANGED <<deps, pureVars, watchVars, waves, projects, concurrency, dryRun, epc,
                   waveIndex, itemIdx, running, results, overallSuccess, currentStep,
                   ret, events, begun, ended, failed>>
    /\ UNCHANGED moreVars

\* Promise.race(executing) has resolved: the for loop goes on.
RaceResume ==
    /\ epc = "race"
    /\ ready = <<>>
    /\ settled
    /\ epc' = "loop"
    /\ settled' = FALSE
    /\ UNCHANGED <<deps, pureVars, watchVars, waves, projects, concurrency, dryRun, waveIndex,
                   itemIdx, executing, ready, running, waveResults, results,
                   overallSuccess, currentStep, ret, events, begun, ended, failed>>
    /\ UNCHANGED moreVars

\* Promise.all(executing) has resolved: runWithConcurrency returns, executePlan
\* pushes the wave's results and breaks, goes to the next wave, or returns.
WaveEnd ==
    /\ epc = "all"
    /\ WaveSettled(executing)
    /\ results' = results \o waveResults
    /\ IF StopAfterWave(overallSuccess) \/ waveIndex = Len(waves)
       THEN /\ epc' = "done"
            /\ ret' = [returned |-> TRUE, success |-> overallSuccess,
                       results |-> results']
            /\ UNCHANGED <<waveIndex, itemIdx, waveResults, executing>>
       ELSE /\ epc' = "loop"
            /\ waveIndex' = waveIndex + 1
            /\ itemIdx' = 1
            /\ waveResults' = <<>>
            /\ executing' = {}
            /\ UNCHANGED ret
    /\ UNCHANGED <<deps, pureVars, watchVars, waves, projects, concurrency, dryRun, ready,
                   settled, running, overallSuccess, currentStep, events, begun,
                   ended, failed>>
    /\ UNCHANGED moreVars

\* A child's 'close' event: runCommand resolves and fn(item) runs to its return.
ChildClose(p, ok) ==
    /\ epc \in {"race", "all"}
    /\ ready = <<>>
    /\ ~settled
    /\ p \in running
    /\ running' = running \ {p}
    /\ events' = Append(events, CompleteEvent(p, ok))
    /\ overallSuccess' = IF ok THEN overallSuccess ELSE FALSE
    /\ ready' = Append(ready, [project |-> p, success |-> ok])
    /\ ended' = ended \cup {p}
    /\ failed' = IF ok THEN failed ELSE failed \cup {p}
    /\ UNCHANGED <<deps, pureVars, watchVars, waves, projects, concurrency, dryRun, epc,
                   waveIndex, itemIdx, executing, settled, waveResults, results,
                   currentStep, ret, begun>>
    /\ UNCHANGED moreVars

NextExec ==
    \/ executePlan
    \/ runWithConcurrency
    \/ AwaitAll
    \/ ThenCallback
    \/ RaceResume
    \/ WaveEnd
    \/ \E p \in Projects, ok \in BOOLEAN : ChildClose(p, ok)

SpecExec == InitExec /\ [][NextExec]_vars

\* ---------------------------------------------- properties: executePlan

WaveNo(p) == CHOOSE k \in 1..Len(waves) : p \in Range(waves[k])

RECURSIVE SumLen(_, _)
SumLen(ws, k) == IF k = 0 THEN 0 ELSE Len(ws[k]) + SumLen(ws, k - 1)

ResultProjects(rs) == {rs[i].project : i \in 1..Len(rs)}

\* C5: no project of a wave is started before every project of every earlier
\* wave has completed (its child has closed, or it resolved without one).
C5_WaveBarrier ==
    \A p \in begun : \A k \in 1..Len(waves) : \A q \in Range(waves[k]) :
        k < WaveNo(p) => (q \in ended /\ q \notin running)

\* C5 witness: a second-wave build is running after a first wave of two real
\* builds that closed in the reverse of their start order.
C5_Witness ==
    /\ ~dryRun
    /\ Len(waves) >= 2
    /\ Len(waves[1]) >= 2
    /\ \E p \in running : WaveNo(p) = 2
    /\ Len(results) >= 2
    /\ results[1].project = waves[1][2]
    /\ results[2].project = waves[1][1]

\* C6: once a build of wave k has exited non-zero, no project of a later wave is
\* ever started, and executePlan returns success = false with results holding
\* exactly the projects of waves 1..k, each once, all of wave k having run to
\* completion.
C6_FailureStopsAfterWave ==
    \A f \in failed :
        LET k == WaveNo(f)
        IN /\ \A p \in begun : WaveNo(p) <= k
           /\ ret.returned =>
                /\ ret.success = FALSE
                /\ Len(ret.results) = SumLen(waves, k)
                /\ ResultProjects(ret.results) = UNION {Range(waves[j]) : j \in 1..k}
                /\ Range(waves[k]) \subseteq (begun \cap ended)
                /\ running = {}

\* C6 witness: executePlan has returned after the first started build of a
\* two-project first wave failed, its sibling completed after it, and a later
\* wave was left unbuilt.
C6_Witness ==
    /\ ret.returned
    /\ Len(waves) >= 2
    /\ Len(waves[1]) >= 2
    /\ Len(ret.results) >= 2
    /\ ret.results[1].project \in failed
    /\ ret.results[2].success

\* C7: never more than `concurrency` children in flight (nor more than that many
\* pending promises in `executing`), and while the limit is reached no further
\* child is spawned: one in flight has to close first.
C7_ConcurrencyBound ==
    /\ [](Cardinality(running) <= concurrency /\ Cardinality(executing) <= concurrency)
    /\ [][Cardinality(running) >= concurrency => running' \subseteq running]_vars

\* C7 witness: the limit (at least 2) is reached again after a completion let a
\* further build of the same wave in.
C7_Witness ==
    /\ epc = "race"
    /\ concurrency >= 2
    /\ ~dryRun
    /\ Len(waves[waveIndex]) > concurrency
    /\ Cardinality(running) = concurrency
    /\ Len(waveResults) >= 1

\* ------------------------------------------------ cli.ts: watch command

\* The watched workspace: a dependency chain, project p depending on p - 1.
\* (The watch command exits at start-up when detectCycles reports a cycle.)
ChainDeps == [p \in Projects |-> IF p > 1 THEN {p - 1} ELSE {}]

WatchGraphs == {ChainDeps}

\* config.sources: per generator, the set of projects p for which
\* shouldRunGenerator finds a match (a dep naming p, p's path, or the
\* generator's path lying inside p).
GeneratorConfigs ==
    UNION {[1..n -> [triggers : {{1}, Projects}]] : n \in 0..MaxGenerators}

\* What the watcher hands to onChange: the owners of a batch of paths (here a
\* batch inside the first or inside the last project), or all projects after a
\* root-config change.
ChangeSets == {{1}, {MaxProjects}, Projects}

\* No --filter (every project matches), or a pattern matching project 1 only.
Filters == {Projects, {1}}

matchesFilter(p) == p \in filterSet

shouldRunGenerator(g, affectedProjects) ==
    sources[g].triggers \cap affectedProjects # {}

NextGeneratorNone(from, affectedProjects) == 0

\* Index of the first generator at or after `from` that is to run; 0 if none.
NextGenerator(from, affectedProjects) ==
    LET cand == {g \in from..Len(sources) : shouldRunGenerator(g, affectedProjects)}
    IN IF cand = {} THEN 0 ELSE CHOOSE g \in cand : \A h \in cand : g <= h

\* getAffectedProjects(changed, graph.rdeps) and createBuildPlan(filteredAffected,
\* graph.deps) over the watched workspaces, tabulated once.
AffectedOf ==
    [d \in WatchGraphs |->
        [S \in SUBSET Projects |-> getAffectedProjects(S, rdepsOf(d))]]

createBuildPlan ==
    [d \in WatchGraphs |-> [A \in SUBSET Projects |-> planWaves(A, d)]]

WatchState ==
    [isBuilding |-> isBuilding, pendingChanges |-> pendingChanges,
     buildCount |-> buildCount, active |-> active, starts |-> starts,
     releases |-> releases, during |-> during, lastChanged |-> lastChanged]

BusyNever(w) == FALSE

\* if (isBuilding)
Busy(w) == w.isBuilding

\* isBuilding = false
Release(w) == [w EXCEPT !.isBuilding = FALSE, !.releases = @ + 1]

GeneratorFailedNoRelease(w) == w

\* if (!sourceResult.success) { ...; isBuilding = false; return; }
GeneratorFailed(w) == Release(w)

RECURSIVE handleChanges(_, _)

\* handleChanges after executePlan: release, then drain pendingChanges.
BuildFinished(w) ==
    LET w1 == Release(w)
    IN IF ~w1.pendingChanges.null /\ w1.pendingChanges.set # {}
       THEN handleChanges([w1 EXCEPT !.pendingChanges = [null |-> TRUE, set |-> {}]],
                          w1.pendingChanges.set)
       ELSE w1

\* handleChanges after a successful generator pass: executePlan is awaited. In a
\* dry run it resolves without spawning; otherwise the call stays suspended.
AfterGenerators(w, a) ==
    IF Len(createBuildPlan[deps][a.filtered].waves) > 0 /\ ~dryRun
    THEN [w EXCEPT !.active = @ \cup {[a EXCEPT !.stage = "exec", !.gen = 0]}]
    ELSE BuildFinished(w)

\* runSourceGeneratorsWithUI from generator `from` on: in a dry run nothing is
\* spawned; otherwise the call stays suspended on the first generator to run.
RunGenerators(w, a, from) ==
    LET g == NextGenerator(from, a.affected)
    IN IF dryRun \/ g = 0
       THEN AfterGenerators(w, a)
       ELSE [w EXCEPT !.active = @ \cup {[a EXCEPT !.stage = "gen", !.gen = g]}]

\* handleChanges(changedProjects), from its entry to its first suspension or return.
handleChanges(w, changed) ==
    IF Busy(w)
    THEN [w EXCEPT !.pendingChanges = [null |-> FALSE, set |-> @.set \cup changed],
                   !.during = @ \cup changed]
    ELSE LET w1 == [w EXCEPT !.isBuilding = TRUE, !.starts = @ + 1,
                             !.during = {}, !.lastChanged = changed]
             affected == AffectedOf[deps][changed]
             filteredAffected == {p \in affected : matchesFilter(p)}
         IN IF filteredAffected = {}
            THEN Release(w1)
            ELSE LET w2 == [w1 EXCEPT !.buildCount = @ + 1]
                     a == [id |-> w1.starts, changed |-> changed,
                           affected |-> affected, filtered |-> filteredAffected,
                           stage |-> "gen", gen |-> 0]
                 IN IF createBuildPlan[deps][filteredAffected].ok
                    THEN RunGenerators(w2, a, 1)
                    ELSE w2  \* createBuildPlan threw: the call rejects

SetWatchState(w) ==
    /\ isBuilding' = w.isBuilding
    /\ pendingChanges' = w.pendingChanges
    /\ buildCount' = w.buildCount
    /\ active' = w.active
    /\ starts' = w.starts
    /\ releases' = w.releases
    /\ during' = w.during
    /\ lastChanged' = w.lastChanged

InitWatch ==
    /\ deps \in WatchGraphs
    /\ PureIdle
    /\ ExecIdle
    /\ dryRun \in BOOLEAN
    /\ filterSet \in Filters
    /\ sources \in GeneratorConfigs
    /\ isBuilding = FALSE
    /\ pendingChanges = [null |-> TRUE, set |-> {}]
    /\ buildCount = 0
    /\ active = {}
    /\ deliveries = 0
    /\ starts = 0
    /\ releases = 0
    /\ during = {}
    /\ lastChanged = {}
    /\ MoreIdle

\* The watcher's onChange: void handleChanges(changedProjects, changedFiles).
OnChange(changed) ==
    /\ deliveries < MaxDeliveries
    /\ deliveries' = deliveries + 1
    /\ \E w \in {handleChanges(WatchState, changed)} : SetWatchState(w)
    /\ UNCHANGED <<deps, pureVars, execVars, filterSet, sources>>
    /\ UNCHANGED moreVars

\* The running generator's child closes: the pass fails, or goes on.
GeneratorExit(a, ok) ==
    /\ a \in active
    /\ a.stage = "gen"
    /\ \E w \in {IF ok THEN RunGenerators([WatchState EXCEPT !.active = @ \ {a}],
                                         a, a.gen + 1)
                ELSE GeneratorFailed([WatchState EXCEPT !.active = @ \ {a}])} :
          SetWatchState(w)
    /\ UNCHANGED <<deps, pureVars, execVars, filterSet, sources, deliveries>>
    /\ UNCHANGED moreVars

\* The awaited executePlan resolves (its success only selects the status line).
BuildExit(a) ==
    /\ a \in active
    /\ a.stage = "exec"
    /\ \E w \in {BuildFinished([WatchState EXCEPT !.active = @ \ {a}])} :
          SetWatchState(w)
    /\ UNCHANGED <<deps, pureVars, execVars, filterSet, sources, deliveries>>
    /\ UNCHANGED moreVars

GeneratorExits == \E a \in active, ok \in BOOLEAN : GeneratorExit(a, ok)

BuildExits == \E a \in active : BuildExit(a)

NextWatch ==
    \/ \E changed \in ChangeSets : OnChange(changed)
    \/ GeneratorExits
    \/ BuildExits

SpecWatch == InitWatch /\ [][NextWatch]_vars

\* Children of generators and builds exit, and their close events are handled.
SpecWatchFair == SpecWatch /\ WF_vars(GeneratorExits) /\ WF_vars(BuildExits)

\* ------------------------------------------------ properties: watch loop

\* C1: at most one build attempt is in progress at any time, and a delivery that
\* arrives while isBuilding is true starts no attempt (no plan, generator or
\* executor run): it only queues.
C1_OneBuildAtATime ==
    /\ [](/\ Cardinality(active) <= 1
          /\ active # {} => isBuilding
          /\ starts - releases = (IF isBuilding THEN 1 ELSE 0))
    /\ [][(isBuilding /\ deliveries' = deliveries + 1) =>
             (active' = active /\ starts' = starts /\ buildCount' = buildCount)]_vars

\* C1 witness: a build attempt is suspended on executePlan and deliveries have
\* arrived (and were queued) since it started.
C1_Witness ==
    /\ \E a \in active : a.stage = "exec"
    /\ during # {}
    /\ ~pendingChanges.null

\* C2: when a build attempt ends and deliveries arrived during it, exactly one
\* follow-up attempt starts in the same step, and its changed-set is the union
\* of the sets delivered during the attempt.
C2_OneFollowUpWithUnion ==
    [][(isBuilding /\ releases' > releases /\ during # {}) =>
          (starts' = starts + 1 /\ lastChanged' = during)]_vars

\* C3: the loop is never idle (isBuilding false, no handler suspended) with a
\* non-empty pendingChanges.
C3_NoIdlePending ==
    (~isBuilding /\ active = {}) =>
        (pendingChanges.null \/ pendingChanges.set = {})

DepMaps == {"dependencies", "devDependencies", "peerDependencies",
            "optionalDependencies"}

\* Package names a manifest can mention: the projects, and 0 for a package that
\* is no project of the workspace.
Names == 0..MaxProjects

\* Subsets of S with at most n members.
SubsetsUpTo(S, n) ==
    LET upTo[i \in 0..n] ==
            IF i = 0 THEN {{}}
            ELSE upTo[i - 1] \cup {T \cup {e} : T \in upTo[i - 1], e \in S}
    IN upTo[n]

\* Object.keys({...dependencies, ...devDependencies, ...peerDependencies,
\*              ...optionalDependencies}) of project `name`
allDeps(name, decl) == {e[3] : e \in {x \in decl : x[1] = name}}

AddEdgeNoMirror(g, name, depName) ==
    [deps |-> [g.deps EXCEPT ![name] = @ \cup {depName}],
     rdeps |-> IF name = depName THEN g.rdeps
               ELSE [g.rdeps EXCEPT ![depName] = @ \cup {name}]]

\* deps.get(name)!.add(depName); rdeps.get(depName)!.add(name)
AddEdge(g, name, depName) ==
    [deps |-> [g.deps EXCEPT ![name] = @ \cup {depName}],
     rdeps |-> [g.rdeps EXCEPT ![depName] = @ \cup {name}]]

\* if (projects.has(depName))
HasProject(projs, depName) == depName \in projs

\* buildGraph(projects): both maps start with an empty set per project; then,
\* for every project and every name of its merged dependency maps that is a
\* project, the edge and its mirror are added.
buildGraph(projs, decl) ==
    LET pairs == {<<n, d>> \in projs \X Names : d \in allDeps(n, decl)}
        build[P \in SUBSET pairs] ==
            IF P = {} THEN [deps |-> [n \in projs |-> {}],
                            rdeps |-> [n \in projs |-> {}]]
            ELSE LET e == CHOOSE x \in P : TRUE
                 IN IF HasProject(projs, e[2])
                    THEN AddEdge(build[P \ {e}], e[1], e[2])
                    ELSE build[P \ {e}]
    IN build[pairs]

InitGraph ==
    /\ deps = [p \in Projects |-> {}]
    /\ PureIdle
    /\ ExecIdle
    /\ dryRun = FALSE
    /\ WatchIdle
    /\ known \in {1..k : k \in 0..MaxProjects}
    /\ declared \in SubsetsUpTo({e \in Projects \X DepMaps \X Names : e[1] \in known},
                                MaxDecls)
    /\ graphOut = [called |-> FALSE, deps |-> <<>>, rdeps |-> <<>>]
    /\ keysOrder = <<>>
    /\ cyclesOut = [called |-> FALSE, null |-> TRUE, cycles |-> <<>>]
    /\ RegIdle
    /\ WatcherIdle
    /\ RestIdle
    /\ BuildIdle

CallBuildGraph ==
    /\ ~graphOut.called
    /\ graphOut' = [called |-> TRUE,
                    deps |-> buildGraph(known, declared).deps,
                    rdeps |-> buildGraph(known, declared).rdeps]
    /\ UNCHANGED <<deps, pureVars, execVars, watchVars, known, declared, keysOrder,
                   cyclesOut, regVars, fsVars, buildVars, restVars>>

NextGraph == CallBuildGraph

SpecGraph == InitGraph /\ [][NextGraph]_vars

\* C11: the deps and rdeps of buildGraph mirror each other, their keys are the
\* known projects and their members are known projects, and B is in deps[A]
\* exactly when B is a known project named in one of A's four dependency maps.
C11_BuildGraphMirror ==
    graphOut.called =>
        /\ DOMAIN graphOut.deps = known
        /\ DOMAIN graphOut.rdeps = known
        /\ \A a \in known :
              /\ graphOut.deps[a] \subseteq known
              /\ graphOut.rdeps[a] \subseteq known
              /\ \A b \in known : b \in graphOut.deps[a] <=> a \in graphOut.rdeps[b]
              /\ \A b \in Names :
                    b \in graphOut.deps[a] <=>
                        (b \in known /\ \E m \in DepMaps : <<a, m, b>> \in declared)

\* C11 witness: a project declares itself in devDependencies and a package
\* outside the workspace; the self-edge is kept, the other name makes no edge.
C11_Witness ==
    /\ graphOut.called
    /\ \E a \in known :
          /\ <<a, "devDependencies", a>> \in declared
          /\ a \in graphOut.deps[a]
          /\ \E m \in DepMaps : <<a, m, 0>> \in declared

\* ---------------------------------------------- graph.ts: detectCycles

\* The iteration orders of a map whose keys are the set S.
Perms(S) ==
    {f \in [1..Cardinality(S) -> S] : \A i, j \in DOMAIN f : i # j => f[i] # f[j]}

\* path.indexOf(x): 0-based index of the first occurrence, -1 if there is none
indexOf(path, x) ==
    IF \E i \in 1..Len(path) : path[i] = x
    THEN (CHOOSE i \in 1..Len(path) :
             path[i] = x /\ \A j \in 1..(i - 1) : path[j] # x) - 1
    ELSE -1

\* path.slice(start): a negative start counts from the end
slice(path, start) ==
    LET from == IF start >= 0 THEN start
                ELSE IF Len(path) + start > 0 THEN Len(path) + start ELSE 0
    IN SubSeq(path, from + 1, Len(path))

IsBackEdgeOrVisited(depColor) == depColor # "WHITE"

\* if (depColor === GRAY)
IsBackEdge(depColor) == depColor = "GRAY"

RECURSIVE dfs(_, _, _)
RECURSIVE dfsDeps(_, _, _)

\* for (const dep of nodeDeps) { ... }: a set is iterated in insertion order,
\* here the order of the names
dfsDeps(st, ds, d) ==
    IF ds = <<>> THEN st
    ELSE LET dep == Head(ds)
             depColor == st.color[dep]
         IN IF IsBackEdge(depColor)
            THEN dfsDeps([st EXCEPT !.cycles =
                             Append(@, slice(st.path, indexOf(st.path, dep)) \o <<dep>>)],
                         Tail(ds), d)
            ELSE IF depColor = "WHITE"
                 THEN dfsDeps(dfs(st, dep, d), Tail(ds), d)
                 ELSE dfsDeps(st, Tail(ds), d)

\* function dfs(node, path)
dfs(st, node, d) ==
    LET entered == [st EXCEPT !.color[node] = "GRAY", !.path = Append(@, node)]
        visited == dfsDeps(entered, SortAsc(d[node]), d)
    IN [visited EXCEPT !.path = SubSeq(@, 1, Len(@) - 1), !.color[node] = "BLACK"]

\* detectCycles(graph): all nodes WHITE, then dfs from every key still WHITE;
\* null when no cycle was recorded.
detectCycles(keys, d) ==
    LET roots[i \in 0..Len(keys)] ==
            IF i = 0 THEN [color |-> [n \in Range(keys) |-> "WHITE"],
                           path |-> <<>>, cycles |-> <<>>]
            ELSE IF roots[i - 1].color[keys[i]] = "WHITE"
                 THEN dfs(roots[i - 1], keys[i], d)
                 ELSE roots[i - 1]
        found == roots[Len(keys)].cycles
    IN [null |-> (Len(found) = 0), cycles |-> found]

InitCycles ==
    /\ deps \in Graphs
    /\ PureIdle
    /\ ExecIdle
    /\ dryRun = FALSE
    /\ WatchIdle
    /\ known = Projects
    /\ declared = {}
    /\ graphOut = [called |-> FALSE, deps |-> <<>>, rdeps |-> <<>>]
    /\ keysOrder \in Perms(Projects)
    /\ cyclesOut = [called |-> FALSE, null |-> TRUE, cycles |-> <<>>]
    /\ RegIdle
    /\ WatcherIdle
    /\ RestIdle
    /\ BuildIdle

CallDetectCycles ==
    /\ ~cyclesOut.called
    /\ \E r \in {detectCycles(keysOrder, deps)} :
          cyclesOut' = [called |-> TRUE, null |-> r.null, cycles |-> r.cycles]
    /\ UNCHANGED <<deps, pureVars, execVars, watchVars, known, declared, graphOut,
                   keysOrder, regVars, fsVars, buildVars, restVars>>

NextCycles == CallDetectCycles

SpecCycles == InitCycles /\ [][NextCycles]_vars

\* C12: detectCycles reports no cycle exactly when the graph is acyclic: at
\* least one cycle for every graph with a directed cycle (a self-loop included),
\* none for every acyclic graph.
C12_DetectCyclesIffCyclic ==
    cyclesOut.called => (cyclesOut.null <=> Acyclic(deps))

\* C12 witness: a graph whose only cycle is reached through a project that is
\* itself on no cycle, visited from a root that is not on the cycle.
C12_Witness ==
    /\ cyclesOut.called
    /\ ~cyclesOut.null
    /\ \A p \in Projects : p \notin deps[p]
    /\ deps[keysOrder[1]] # {}
    /\ \A q \in Projects : keysOrder[1] \notin deps[q]

\* ------------------------------------- source-scanner: loadWorkgraphConfig

MaxDebounce == 2
MaxEvents == 3

\* A generator declaration of a manifest's workgraph.sources:
\*   key    - the source path the entry is keyed by (an id)
\*   deps   - the projects its `deps` array names ({} for `deps: []`)
\*   within - the projects whose directory holds path.resolve(root, key)
\*   home   - the project whose manifest declares it, 0 for the root manifest
RootManifests ==
    {[i \in 1..Len(c) |-> [key |-> i, deps |-> c[i].triggers, within |-> {}, home |-> 0]] :
        c \in GeneratorConfigs}

\* No project declares a generator, or one project declares one with `deps: []`
\* under a key of its own or under the first root key, its path inside the
\* project directory or not.
ProjectManifests ==
    {[p \in Projects |-> <<>>]}
    \cup {[p \in Projects |->
             IF p = q
             THEN <<[key |-> k, deps |-> {}, within |-> IF w THEN {q} ELSE {},
                     home |-> q]>>
             ELSE <<>>] :
          q \in {1, MaxProjects}, k \in {1, MaxGenerators + 1}, w \in BOOLEAN}

\* A merge in which a key already present keeps its value.
RECURSIVE ObjectAssignKeep(_, _)
ObjectAssignKeep(target, src) ==
    IF src = <<>> THEN target
    ELSE LET e == Head(src)
             hit == {i \in 1..Len(target) : target[i].key = e.key}
         IN ObjectAssignKeep(IF hit = {} THEN Append(target, e) ELSE target, Tail(src))

\* Object.assign(target, src) / { ...target, ...src }: a key already present keeps
\* its position and takes the new value, a new key is appended.
RECURSIVE ObjectAssign(_, _)
ObjectAssign(target, src) ==
    IF src = <<>> THEN target
    ELSE LET e == Head(src)
             hit == {i \in 1..Len(target) : target[i].key = e.key}
             t2 == IF hit = {} THEN Append(target, e)
                   ELSE [i \in 1..Len(target) |-> IF i \in hit THEN e ELSE target[i]]
         IN ObjectAssign(t2, Tail(src))

\* for (const [name, project] of projects) Object.assign(projectSources, sources)
RECURSIVE LoadProjectSources(_, _, _)
LoadProjectSources(acc, names, manifests) ==
    IF names = <<>> THEN acc
    ELSE LoadProjectSources(ObjectAssign(acc, manifests[Head(names)]), Tail(names),
                            manifests)

\* loadWorkgraphConfig(root, projects?): `names` is <<>> when the caller passes no
\* projects map.
loadWorkgraphConfig(rootManifest, names, manifests) ==
    ObjectAssign(rootManifest, LoadProjectSources(<<>>, names, manifests))

\* The projects whose being affected makes shouldRunGenerator true for the entry.
TriggersOf(decl) == IF decl.deps # {} THEN decl.deps ELSE decl.within

\* config.sources as the commands of cli.ts see it.
Registry(decls) ==
    [i \in 1..Len(decls) |->
        [key |-> decls[i].key, triggers |-> TriggersOf(decls[i]), home |-> decls[i].home]]

\* The registry the documentation describes: root and project manifests.
FullRegistry ==
    loadWorkgraphConfig(rootSources, SortAsc(Projects), projectSources)

\* --------------------------------------------------- watcher.ts: createWatcher

BasePattern(g) == [glob |-> g, key |-> 0]

DEFAULT_IGNORE_PATTERNS ==
    {BasePattern(g) : g \in {"**/node_modules/**", "**/dist/**", "**/.angular/**",
                             "**/.nx/**", "**/coverage/**", "**/*.log", "**/.git/**",
                             "**/tmp/**", "**/.cache/**"}}

\* `**/${p}/**`
SourcePattern(k) == [glob |-> "**/${p}/**", key |-> k]

\* Object.keys(config.sources).map(p => `**/${p}/**`) with config = loadWorkgraphConfig(root)
sourcePaths ==
    LET config == loadWorkgraphConfig(rootSources, <<>>, projectSources)
    IN {SourcePattern(config[i].key) : i \in 1..Len(config)}

Undefined == [undefined |-> TRUE, patterns |-> {}]
Given(ps) == [undefined |-> FALSE, patterns |-> ps]

\* What a library caller may pass as options.ignorePatterns.
CallerPatterns == {Undefined, Given({BasePattern("**/generated/**")})}

\* const { ignorePatterns = DEFAULT_IGNORE_PATTERNS } = options
EffectiveIgnore(opt) ==
    IF opt.undefined THEN DEFAULT_IGNORE_PATTERNS ELSE opt.patterns

createWatcher(who, opt, ms) ==
    /\ ~watcherOn
    /\ watcherOn' = TRUE
    /\ caller' = who
    /\ supplied' = opt
    /\ ignorePatterns' = EffectiveIgnore(opt)
    /\ debounceMs' = ms
    /\ UNCHANGED <<changedFiles, debounceTimer, timers, fsEvents, sinceEvent, expiries,
                   lastFlush, onChangeCalls>>
    /\ UNCHANGED <<deps, pureVars, execVars, watchVars, graphVars, regVars, buildVars, restVars>>

\* The watch action of cli.ts, from loading the registry to createWatcher.
WatchCommand ==
    \E ms \in 1..MaxDebounce : createWatcher("watch", Given(sourcePaths), ms)

\* createWatcher called through the package's API.
LibraryCall ==
    \E opt \in CallerPatterns, ms \in 1..MaxDebounce : createWatcher("api", opt, ms)

\* ------------------------------------ watcher.ts: debounce and processChanges

MaxWrites == 1

\* A path as the watcher sees it:
\*   kind  - "root" for a root-config file of the workspace, "src" for any other
\*           watched file, "dist" for a file under a dist directory, "generated"
\*           for a file under the source path of generator `key`
\*   owner - the project whose directory holds it, 0 if none does
File(kind, owner, key) == [kind |-> kind, owner |-> owner, key |-> key]

Files ==
    {File("root", 0, 0)} \cup {File("src", p, 0) : p \in 0..MaxProjects}

GeneratedFile(decl) ==
    File("generated",
         IF decl.within = {} THEN 0 ELSE CHOOSE p \in decl.within : TRUE,
         decl.key)

\* Files written by the tools themselves: build output of the first project and
\* the output of every declared generator.
OutputFiles ==
    {File("dist", 1, 0)}
    \cup {GeneratedFile(FullRegistry[i]) : i \in 1..Len(FullRegistry)}

\* chokidar's `ignored` option: the event of a path matched by a pattern is not
\* delivered.
Ignored(f, patterns) ==
    \/ f.kind = "dist" /\ BasePattern("**/dist/**") \in patterns
    \/ f.kind = "generated" /\ SourcePattern(f.key) \in patterns

\* isRootConfig(file, root): package.json, lockfiles and TS-configs of the root.
isRootConfig(f) == f.kind = "root"

\* getProjectFromPath(file, projects, root): the owning project, 0 for null.
getProjectFromPath(f) == f.owner

clearTimeoutNoop(ts, id) == ts

clearTimeout(ts, id) == [ts EXCEPT ![id] = -1]

\* if (debounceTimer) clearTimeout(debounceTimer);
\* debounceTimer = setTimeout(processChanges, debounceMs)
scheduleProcess(ts, handle, ms) ==
    Append(IF handle # 0 THEN clearTimeout(ts, handle) ELSE ts, ms)

\* A file event reaches handleChange: changedFiles.push(filePath); scheduleProcess()
handleChange(f, cap) ==
    /\ watcherOn
    /\ fsEvents < cap
    /\ ~Ignored(f, ignorePatterns)
    /\ changedFiles' = Append(changedFiles, f)
    /\ timers' = scheduleProcess(timers, debounceTimer, debounceMs)
    /\ debounceTimer' = Len(timers')
    /\ fsEvents' = fsEvents + 1
    /\ sinceEvent' = 0
    /\ UNCHANGED <<watcherOn, caller, supplied, ignorePatterns, debounceMs, expiries,
                   lastFlush, onChangeCalls>>
    /\ UNCHANGED <<deps, pureVars, execVars, watchVars, graphVars, regVars, buildVars, restVars>>

Pending(ts) == {i \in 1..Len(ts) : ts[i] >= 0}
Due(ts) == {i \in 1..Len(ts) : ts[i] = 0}

\* One millisecond passes while some timer is pending and none is due.
Tick ==
    /\ Pending(timers) # {}
    /\ Due(timers) = {}
    /\ timers' = [i \in 1..Len(timers) |-> IF timers[i] > 0 THEN timers[i] - 1 ELSE timers[i]]
    /\ sinceEvent' = IF sinceEvent < debounceMs THEN sinceEvent + 1 ELSE sinceEvent
    /\ UNCHANGED <<watcherOn, caller, supplied, ignorePatterns, debounceMs, changedFiles,
                   debounceTimer, fsEvents, expiries, lastFlush, onChangeCalls>>
    /\ UNCHANGED <<deps, pureVars, execVars, watchVars, graphVars, regVars, buildVars, restVars>>

\* filesByProject of a batch: each project's paths, in batch order.
GroupByProject(batch) ==
    [p \in Projects |-> SelectSeq(batch, LAMBDA f : getProjectFromPath(f) = p)]

NoFiles == [undefined |-> TRUE, map |-> [p \in Projects |-> <<>>]]

\* onChange(set): called with one argument.
OnChangeCall(set) == [changedProjects |-> set, changedFiles |-> NoFiles]

\* for (const file of filesToProcess) { if (isRootConfig) { ...; break } ... }
RECURSIVE ScanFiles(_, _, _)
ScanFiles(files, i, changed) ==
    IF i > Len(files) THEN [isGlobalChange |-> FALSE, changedProjects |-> changed]
    ELSE IF isRootConfig(files[i])
         THEN [isGlobalChange |-> TRUE, changedProjects |-> changed]
         ELSE LET project == getProjectFromPath(files[i])
              IN ScanFiles(files, i + 1,
                           IF project # 0 THEN changed \cup {project} ELSE changed)

DeliverAttributedFirst(scan) ==
    IF scan.changedProjects # {} THEN <<OnChangeCall(scan.changedProjects)>>
    ELSE IF scan.isGlobalChange THEN <<OnChangeCall(Projects)>>
    ELSE <<>>

\* if (isGlobalChange) onChange(new Set(projects.keys()))
\* else if (changedProjects.size > 0) onChange(changedProjects)
Deliver(scan) ==
    IF scan.isGlobalChange THEN <<OnChangeCall(Projects)>>
    ELSE IF scan.changedProjects # {} THEN <<OnChangeCall(scan.changedProjects)>>
    ELSE <<>>

\* The onChange calls processChanges makes for a batch.
processChanges(filesToProcess) == Deliver(ScanFiles(filesToProcess, 1, {}))

\* A due timer fires and runs processChanges.
TimerFires ==
    \E id \in Due(timers) :
        /\ timers' = [timers EXCEPT ![id] = -1]
        /\ expiries' = expiries + 1
        /\ IF changedFiles = <<>>
           THEN UNCHANGED <<changedFiles, lastFlush, onChangeCalls>>
           ELSE \E calls \in {processChanges(changedFiles)} :
                   /\ changedFiles' = <<>>
                   /\ lastFlush' = [batch |-> changedFiles, calls |-> calls]
                   /\ onChangeCalls' = onChangeCalls + Len(calls)
        /\ UNCHANGED <<watcherOn, caller, supplied, ignorePatterns, debounceMs,
                       debounceTimer, fsEvents, sinceEvent>>
        /\ UNCHANGED <<deps, pureVars, execVars, watchVars, graphVars, regVars, buildVars, restVars>>

IdleBut(reg) ==
    /\ deps = [p \in Projects |-> {}]
    /\ PureIdle
    /\ ExecIdle
    /\ dryRun = FALSE
    /\ WatchIdle
    /\ GraphIdle
    /\ WatcherIdle
    /\ RestIdle
    /\ BuildIdle
    /\ reg

\* A workspace whose manifests declare no generator; the watcher is not created yet.
InitWatcher == IdleBut(RegIdle)

NextWatcher ==
    \/ WatchCommand
    \/ LibraryCall
    \/ \E f \in Files : handleChange(f, MaxEvents)
    \/ Tick
    \/ TimerFires

SpecWatcher == InitWatcher /\ [][NextWatcher]_vars

\* Any manifests; the events are those of the tools' own output files.
InitIgnore ==
    IdleBut(/\ rootSources \in RootManifests
            /\ projectSources \in ProjectManifests)

NextIgnore ==
    \/ WatchCommand
    \/ LibraryCall
    \/ \E f \in OutputFiles : handleChange(f, MaxWrites)
    \/ Tick
    \/ TimerFires

SpecIgnore == InitIgnore /\ [][NextIgnore]_vars

\* ------------------------------------------------- properties: watcher.ts

Owners(batch) == {getProjectFromPath(batch[i]) : i \in 1..Len(batch)} \ {0}

HasRootConfig(batch) == \E i \in 1..Len(batch) : isRootConfig(batch[i])

\* C13: every file event leaves exactly one pending timer, set to the full
\* debounceMs; a timer fires only after debounceMs of silence, its expiry makes at
\* most one onChange call and takes the whole buffer as one batch, and the call's
\* project set covers the owners of all paths of the batch; onChange is called
\* from nowhere else.
C13_DebounceOneDelivery ==
    /\ [][fsEvents' # fsEvents =>
            /\ Pending(timers') = {debounceTimer'}
            /\ timers'[debounceTimer'] = debounceMs]_vars
    /\ [][expiries' # expiries =>
            /\ sinceEvent >= debounceMs
            /\ onChangeCalls' <= onChangeCalls + 1
            /\ changedFiles # <<>> =>
                  /\ lastFlush'.batch = changedFiles
                  /\ changedFiles' = <<>>
                  /\ Len(lastFlush'.calls) <= 1
                  /\ Owners(changedFiles) # {} => Len(lastFlush'.calls) = 1
                  /\ \A i \in 1..Len(lastFlush'.calls) :
                        Owners(changedFiles) \subseteq lastFlush'.calls[i].changedProjects]_vars
    /\ [][onChangeCalls' # onChangeCalls => expiries' = expiries + 1]_vars

\* A burst of events on files of two projects, flushed by one expiry as one call.
C13_Witness ==
    /\ debounceMs >= 2
    /\ expiries = 1
    /\ onChangeCalls = 1
    /\ Len(lastFlush.batch) = MaxEvents
    /\ ~HasRootConfig(lastFlush.batch)
    /\ Cardinality(Owners(lastFlush.batch)) >= 2
    /\ Len(lastFlush.calls) = 1
    /\ lastFlush.calls[1].changedProjects = Owners(lastFlush.batch)

\* C14: for every non-empty batch flushed by the timer, onChange is called exactly
\* once, with the changed projects and with the batch's paths grouped by owning
\* project as second argument.
C14_OneCallWithFilesByProject ==
    lastFlush.batch # <<>> =>
        /\ Len(lastFlush.calls) = 1
        /\ ~lastFlush.calls[1].changedFiles.undefined
        /\ lastFlush.calls[1].changedFiles.map = GroupByProject(lastFlush.batch)

\* C15: a flushed batch that holds a root-config path yields one onChange call
\* with the set of all workspace projects, whatever the other paths of the batch
\* are attributed to.
C15_RootConfigIsGlobal ==
    HasRootConfig(lastFlush.batch) =>
        /\ Len(lastFlush.calls) = 1
        /\ lastFlush.calls[1].changedProjects = Projects

\* A batch with a path of one project followed by a root-config path.
C15_Witness ==
    /\ Len(lastFlush.batch) >= 2
    /\ getProjectFromPath(lastFlush.batch[1]) # 0
    /\ isRootConfig(lastFlush.batch[Len(lastFlush.batch)])
    /\ Owners(lastFlush.batch) # Projects
    /\ Len(lastFlush.calls) = 1
    /\ lastFlush.calls[1].changedProjects = Projects

\* C16: once the watcher is created its ignore set holds every pattern of the base
\* list and every pattern the caller supplied.
C16_IgnoreKeepsBaseList ==
    watcherOn =>
        /\ DEFAULT_IGNORE_PATTERNS \subseteq ignorePatterns
        /\ supplied.patterns \subseteq ignorePatterns

\* C17: while the watch command's watcher runs, the output path of every generator
\* declared in the root manifest or in a project manifest is matched by an ignore
\* pattern, and no write to such a path is ever buffered for a rebuild.
C17_GeneratorOutputsIgnored ==
    (watcherOn /\ caller = "watch") =>
        /\ \A i \in 1..Len(FullRegistry) :
              Ignored(GeneratedFile(FullRegistry[i]), ignorePatterns)
        /\ \A i \in 1..Len(changedFiles) : changedFiles[i].kind # "generated"

\* -------------------------------------------------- cli.ts: build command

Cyclic == [p \in Projects |-> IF p = 1 THEN {2} ELSE IF p = 2 THEN {1} ELSE {}]

\* The workspaces built: a chain, independent projects, two projects in a cycle.
BuildGraphs == {ChainDeps, [p \in Projects |-> {}], Cyclic}

\* --changed: absent, a name no project has (0), the first or the last project.
ChangedOptions == {{}, {0}, {1}, {MaxProjects}}

\* resolveProjectNames(options.changed, graph): unknown identifiers resolve to nothing.
resolveProjectNames(identifiers) == identifiers \cap Projects

GenEvent(g, what) ==
    [key |-> sources[g].key, home |-> sources[g].home, what |-> what]

\* The for loop of runSourceGeneratorsWithUI from entry `from` on, up to the first
\* spawn it awaits or to its return; a dry run spawns nothing.
RECURSIVE GeneratorLoop(_, _, _)
GeneratorLoop(log, from, affectedProjects) ==
    LET g == NextGenerator(from, affectedProjects)
    IN IF g = 0 THEN [log |-> log, at |-> 0, returned |-> TRUE]
       ELSE IF dryRun
            THEN GeneratorLoop(Append(log, GenEvent(g, "dry")), g + 1, affectedProjects)
            ELSE [log |-> Append(log, GenEvent(g, "spawn")), at |-> g, returned |-> FALSE]

Exit(code) ==
    /\ bpc' = "exit"
    /\ exitCode' = code

\* The build action after the generator loop `r`: suspended on a generator child,
\* or, the loop having returned success, at the call of executePlan.
ContinueBuild(r) ==
    /\ genLog' = r.log
    /\ genIdx' = r.at
    /\ UNCHANGED exitCode
    /\ IF r.returned
       THEN /\ bpc' = "exec"
            /\ waves' = planOut.waves
            /\ projects' = Projects
            /\ concurrency' \in {1, MaxConcurrency}
            /\ epc' = "call"
       ELSE /\ bpc' = "gen"
            /\ UNCHANGED <<waves, projects, concurrency, epc>>
    /\ UNCHANGED <<dryRun, waveIndex, itemIdx, executing, ready, settled, running,
                   waveResults, results, overallSuccess, currentStep, ret, events,
                   begun, ended, failed>>

\* The build action from its start to the call of runSourceGeneratorsWithUI, and
\* that function's loadWorkgraphConfig(root).
BuildCommand ==
    /\ bpc = "start"
    /\ LET cycles == detectCycles(SortAsc(Projects), deps)
           changed == IF changedProjects = {} THEN Projects
                      ELSE resolveProjectNames(changedProjects)
           affected == getAffectedProjects(changed, rdepsOf(deps))
           plan == planWaves(affected, deps)
       IN IF ~cycles.null
          THEN /\ Exit(1)
               /\ UNCHANGED <<affectedOut, planOut, sources>>
          ELSE /\ affectedOut' = [called |-> TRUE, set |-> affected]
               /\ planOut' = [called |-> TRUE, ok |-> plan.ok, waves |-> plan.waves]
               /\ IF ~plan.ok
                  THEN Exit(1) /\ UNCHANGED sources
                  ELSE IF Len(plan.waves) = 0
                       THEN Exit(0) /\ UNCHANGED sources
                       ELSE /\ bpc' = "generate"
                            /\ sources' = Registry(loadWorkgraphConfig(rootSources, <<>>,
                                                                       projectSources))
                            /\ UNCHANGED exitCode
    /\ UNCHANGED <<deps, changedProjects, execVars, genIdx, genLog>>
    /\ UNCHANGED <<filterSet, isBuilding, pendingChanges, buildCount, active, deliveries,
                   starts, releases, during, lastChanged>>
    /\ UNCHANGED <<graphVars, regVars, fsVars, restVars>>

\* runSourceGeneratorsWithUI enters its loop.
RunSourceGenerators ==
    /\ bpc = "generate"
    /\ ContinueBuild(GeneratorLoop(genLog, 1, affectedOut.set))
    /\ UNCHANGED <<deps, pureVars, watchVars, graphVars, regVars, fsVars, restVars>>

AbortNever(success) == FALSE

\* if (result.success) { ... } else { return { success: false, generated } }
\* and if (!sourceResult.success) process.exit(1)
AbortBuild(success) == ~success

\* The running generator's child closes (or fails to start).
GeneratorClose(ok) ==
    /\ bpc = "gen"
    /\ IF AbortBuild(ok)
       THEN /\ genLog' = Append(genLog, GenEvent(genIdx, "failed"))
            /\ Exit(1)
            /\ UNCHANGED <<genIdx, execVars>>
       ELSE ContinueBuild(GeneratorLoop(Append(genLog, GenEvent(genIdx, IF ok THEN "ok" ELSE "failed")),
                                        genIdx + 1, affectedOut.set))
    /\ UNCHANGED <<deps, pureVars, watchVars, graphVars, regVars, fsVars, restVars>>

\* executePlan has returned: the command ends, with exit code 1 after a failure.
BuildReturns ==
    /\ bpc = "exec"
    /\ ret.returned
    /\ Exit(IF ret.success THEN 0 ELSE 1)
    /\ UNCHANGED <<genIdx, genLog>>
    /\ UNCHANGED <<deps, pureVars, execVars, watchVars, graphVars, regVars, fsVars, restVars>>

InitBuild ==
    /\ deps \in BuildGraphs
    /\ changedProjects \in ChangedOptions
    /\ affectedOut = [called |-> FALSE, set |-> {}]
    /\ planOut = [called |-> FALSE, ok |-> FALSE, waves |-> <<>>]
    /\ ExecIdle
    /\ dryRun \in BOOLEAN
    /\ WatchIdle
    /\ GraphIdle
    /\ WatcherIdle
    /\ RestIdle
    /\ rootSources \in RootManifests
    /\ projectSources \in ProjectManifests
    /\ bpc = "start"
    /\ genIdx = 0
    /\ genLog = <<>>
    /\ exitCode = -1

NextBuild ==
    \/ BuildCommand
    \/ RunSourceGenerators
    \/ \E ok \in BOOLEAN : GeneratorClose(ok)
    \/ NextExec
    \/ BuildReturns

SpecBuild == InitBuild /\ [][NextBuild]_vars

\* ------------------------------------------- properties: build command

\* Generator `k` declared by manifest `h` has been run to success (in a dry run:
\* has been listed as run).
Generated(k, h) ==
    \E j \in 1..Len(genLog) :
        /\ genLog[j].key = k
        /\ genLog[j].home = h
        /\ genLog[j].what \in {"ok", "dry"}

\* C18: when the build of a project starts, every generator that the project's own
\* manifest declares with empty deps has been run and has completed.
C18_ProjectGeneratorRunsFirst ==
    \A p \in Projects :
        \A i \in 1..Len(projectSources[p]) :
            (projectSources[p][i].deps = {} /\ p \in begun) =>
                Generated(projectSources[p][i].key, p)

FailedAt == {j \in 1..Len(genLog) : genLog[j].what = "failed"}

\* C20: once a generator has exited non-zero, no generator is run after it, the
\* executor is never called and starts no build, and the build command has
\* exited with code 1.
C20_GeneratorFailureAborts ==
    FailedAt # {} =>
        /\ FailedAt = {Len(genLog)}
        /\ epc = "off"
        /\ begun = {}
        /\ events = <<>>
        /\ bpc = "exit"
        /\ exitCode = 1

\* A generator has failed while another triggered generator was still to run.
C20_Witness ==
    /\ FailedAt # {}
    /\ NextGenerator(genIdx + 1, affectedOut.set) # 0
    /\ Len(planOut.waves) > 0
    /\ exitCode = 1

\* ------------------------------- cli.ts: one process, build or watch command

InitBuildOrWatch == InitBuild \/ InitWatch

\* A process started as `workgraph build` has no watcher delivering changes.
NextBuildOrWatch ==
    \/ NextBuild
    \/ bpc = "off" /\ NextWatch

SpecBuildOrWatch == InitBuildOrWatch /\ [][NextBuildOrWatch]_vars

\* The generators of config.sources from entry `from` on that the affected set triggers.
TriggeredFrom(from, affectedProjects) ==
    {g \in from..Len(sources) : shouldRunGenerator(g, affectedProjects)}

Count(log, what) == Cardinality({j \in 1..Len(log) : log[j].what = what})

\* C19: (build command) once executePlan has been called, every generator the
\* affected set triggers has been run to success and no generator child is
\* running, and no generator is started or finished in a step after which a
\* project build has begun; (watch rebuild) an attempt is either waiting for a
\* triggered generator or in the executor, and it enters the executor only from
\* its last triggered generator, or directly when the affected set triggers none.
C19_GeneratorsBeforeExecutor ==
    /\ [](epc # "off" =>
            /\ bpc \in {"exec", "exit"}
            /\ \A g \in TriggeredFrom(1, affectedOut.set) :
                  Generated(sources[g].key, sources[g].home)
            /\ Count(genLog, "spawn") = Count(genLog, "ok"))
    /\ [][genLog' # genLog => (begun' = {} /\ running' = {} /\ events' = <<>>)]_vars
    /\ [](\A a \in active :
            /\ a.stage \in {"gen", "exec"}
            /\ a.stage = "gen" => a.gen \in TriggeredFrom(1, a.affected)
            /\ a.stage = "exec" => a.gen = 0)
    /\ [][\A b \in active' \ active :
            b.stage = "exec" =>
                LET prev == {a \in active : a.id = b.id}
                IN IF prev = {} THEN TriggeredFrom(1, b.affected) = {}
                   ELSE \A a \in prev :
                           /\ a.stage = "gen"
                           /\ TriggeredFrom(a.gen + 1, a.affected) = {}]_vars

\* The executor has started a build after two generators ran to success.
C19_Witness ==
    /\ bpc = "exec"
    /\ ~dryRun
    /\ Count(genLog, "ok") >= 2
    /\ running # {}

\* ------------------------------------- properties: executePlan, results

\* C22: executePlan returns success = true exactly when every entry of its
\* results has success = true, and no project of a wave is started after an
\* earlier wave has produced a failed result.
C22_SuccessIffAllResults ==
    /\ ret.returned =>
          (ret.success <=> \A i \in 1..Len(ret.results) : ret.results[i].success)
    /\ \A i \in 1..Len(results) :
          ~results[i].success =>
              \A p \in begun : WaveNo(p) <= WaveNo(results[i].project)

EventsOf(p, kind) ==
    {i \in 1..Len(events) : events[i].project = p /\ events[i].kind = kind}

\* C23: for every project whose build the executor has started, onStart has been
\* emitted exactly once and onComplete at most once, after the onStart; once the
\* project's build has ended, onComplete has been emitted exactly once.
C23_StartThenComplete ==
    \A p \in begun \cap projects :
        /\ Cardinality(EventsOf(p, "start")) = 1
        /\ Cardinality(EventsOf(p, "complete")) <= 1
        /\ \A i \in EventsOf(p, "start"), j \in EventsOf(p, "complete") : i < j
        /\ p \in ended => Cardinality(EventsOf(p, "complete")) = 1

\* ------------------------------------ planner.ts: planWaves, iteration order

\* A Set as JavaScript keeps it: its members in insertion order.
InsertionOrders == UNION {Perms(S) : S \in SUBSET Projects}

Without(seq, x) == SelectSeq(seq, LAMBDA y : y # x)

SortWaveNone(wave) == wave

\* wave.sort((a, b) => a.localeCompare(b))
SortWave(wave) == SortAsc(Range(wave))

\* for (const node of wave) { remaining.delete(node); ... inDegree.set(other, ...) }
RECURSIVE RemoveWaveInOrder(_, _, _, _)
RemoveWaveInOrder(wave, remaining, inDegree, d) ==
    IF wave = <<>> THEN [remaining |-> remaining, inDegree |-> inDegree]
    ELSE LET rest == Without(remaining, Head(wave))
         IN RemoveWaveInOrder(Tail(wave), rest,
                              Decrement(inDegree, Range(rest), Head(wave), d), d)

\* while (remaining.size > 0) over a Set iterated in insertion order
RECURSIVE PlanLoopInOrder(_, _, _, _)
PlanLoopInOrder(remaining, inDegree, acc, d) ==
    IF remaining = <<>> THEN [ok |-> TRUE, waves |-> acc]
    ELSE LET found == SelectSeq(remaining, LAMBDA n : inDegree[n] = 0)
         IN IF found = <<>> THEN [ok |-> FALSE, waves |-> <<>>]
            ELSE LET wave == SortWave(found)
                     r == RemoveWaveInOrder(wave, remaining, inDegree, d)
                 IN PlanLoopInOrder(r.remaining, r.inDegree, Append(acc, wave), d)

\* planWaves(affected, deps), `affected` given with its insertion order.
planWavesInOrder(affected, d) ==
    IF affected = <<>> THEN [ok |-> TRUE, waves |-> <<>>]
    ELSE PlanLoopInOrder(affected,
                         [n \in Range(affected) |-> InDegreeOf(n, Range(affected), d)],
                         <<>>, d)

InitPlanOrder ==
    /\ deps \in Graphs
    /\ PureIdle
    /\ ExecIdle
    /\ dryRun = FALSE
    /\ WatchIdle
    /\ known = Projects
    /\ declared = {}
    /\ graphOut = [called |-> FALSE, deps |-> <<>>, rdeps |-> <<>>]
    /\ keysOrder \in InsertionOrders
    /\ cyclesOut = [called |-> FALSE, null |-> TRUE, cycles |-> <<>>]
    /\ RegIdle
    /\ WatcherIdle
    /\ RestIdle
    /\ BuildIdle

\* planWaves is called with the set inserted in the order keysOrder.
CallPlanWavesInOrder ==
    /\ ~planOut.called
    /\ changedProjects' = Range(keysOrder)
    /\ \E r \in {planWavesInOrder(keysOrder, deps)} :
          planOut' = [called |-> TRUE, ok |-> r.ok, waves |-> r.waves]
    /\ UNCHANGED <<deps, affectedOut, execVars, watchVars, moreVars>>

NextPlanOrder == CallPlanWavesInOrder

SpecPlanOrder == InitPlanOrder /\ [][NextPlanOrder]_vars

IsSorted(seq) == \A i, j \in 1..Len(seq) : i < j => seq[i] < seq[j]

\* C30: whatever the insertion order of the affected set, planWaves returns what
\* it returns for the same set inserted in ascending name order (the same waves,
\* or the same throw), and every wave is in ascending name order.
C30_PlanWavesDeterministic ==
    planOut.called =>
        LET sorted == planWavesInOrder(SortAsc(Range(keysOrder)), deps)
        IN /\ planOut.ok = sorted.ok
           /\ planOut.waves = sorted.waves
           /\ \A k \in 1..Len(planOut.waves) : IsSorted(planOut.waves[k])

\* A wave of two projects that were inserted in descending order.
C30_Witness ==
    /\ planOut.called
    /\ planOut.ok
    /\ \E k \in 1..Len(planOut.waves) :
          /\ Len(planOut.waves[k]) >= 2
          /\ ~IsSorted(SelectSeq(keysOrder, LAMBDA n : n \in Range(planOut.waves[k])))
    /\ Len(planOut.waves) >= 2

\* ------------------------------------------ affected.ts: resolveProjectNames

MaxWords == 2

\* Path and name segments.
Words == 1..MaxWords

\* How a project's strings are spelled:
\*   name is "@<scope of p>/<base>" when scoped, else "<base>"
\*   path is "<directory of p>/<leaf>" when nested, else "<leaf>"
\*   absolutePath is "<root>/<path>"
Spellings == [scoped : BOOLEAN, base : Words, nested : BOOLEAN, leaf : Words]

\* Workspaces: names are unique and directories are distinct. The first two
\* projects are spelled freely, the others are scoped and nested.
Layouts ==
    {l \in [Projects -> Spellings] :
        /\ \A p, q \in Projects :
              p # q => /\ ~(~l[p].scoped /\ ~l[q].scoped /\ l[p].base = l[q].base)
                       /\ ~(~l[p].nested /\ ~l[q].nested /\ l[p].leaf = l[q].leaf)
        /\ \A p \in Projects : p > 2 => (l[p].scoped /\ l[p].nested /\ l[p].leaf = l[p].base)}

\* An identifier: a single word, or the full scoped name, the full nested path
\* or the absolute path of a project.
Word(t) == <<"word", t>>

Identifiers ==
    {Word(t) : t \in Words} \cup ({"name", "path", "abs"} \X Projects)

\* name === identifier
NameIs(l, q, id) ==
    IF l[q].scoped THEN id = <<"name", q>> ELSE id = Word(l[q].base)

\* name.endsWith('/' + identifier)
NameEndsWith(l, q, id) == l[q].scoped /\ id = Word(l[q].base)

\* project.path === identifier
PathIs(l, q, id) ==
    IF l[q].nested THEN id = <<"path", q>> ELSE id = Word(l[q].leaf)

\* project.path.endsWith('/' + identifier)
PathEndsWith(l, q, id) == l[q].nested /\ id = Word(l[q].leaf)

\* project.absolutePath === identifier
AbsolutePathIs(l, q, id) == id = <<"abs", q>>

\* An identifier as the user can type it: one that spells something.
Typed(l) ==
    {id \in Identifiers :
        \/ id[1] = "word"
        \/ id[1] = "abs"
        \/ id[1] = "name" /\ l[id[2]].scoped
        \/ id[1] = "path" /\ l[id[2]].nested}

\* for (... of graph.projects) { if (...) { resolved.add(name); break } }
FirstOf(hits) ==
    IF hits = {} THEN {} ELSE {CHOOSE q \in hits : \A r \in hits : q <= r}

\* One iteration of the loop of resolveProjectNames: what it adds to `resolved`.
ResolveIdentifier(l, id) ==
    IF \E q \in Projects : NameIs(l, q, id)
    THEN {q \in Projects : NameIs(l, q, id)}
    ELSE FirstOf({q \in Projects : PathIs(l, q, id) \/ AbsolutePathIs(l, q, id)})
         \cup FirstOf({q \in Projects : NameEndsWith(l, q, id) \/ NameIs(l, q, id)})

\* resolveProjectNames(projectIdentifiers, graph)
resolveProjectNamesIn(l, identifiers) ==
    UNION {ResolveIdentifier(l, id) : id \in identifiers}

NameInputs ==
    /\ PathIdle
    /\ layout \in Layouts
    /\ idents \in {ids \in SubsetsUpTo(Identifiers, MaxDecls) :
                       ids # {} /\ ids \subseteq Typed(layout)}
    /\ resolvedOut = [called |-> FALSE, set |-> {}]
    /\ shouldRunOut = [called |-> FALSE, value |-> FALSE]

InitResolve ==
    /\ deps = [p \in Projects |-> {}]
    /\ PureIdle
    /\ ExecIdle
    /\ dryRun = FALSE
    /\ WatchIdle
    /\ GraphIdle
    /\ RegIdle
    /\ WatcherIdle
    /\ BuildIdle
    /\ DevIdle
    /\ NameInputs

CallResolveProjectNames ==
    /\ ~resolvedOut.called
    /\ resolvedOut' = [called |-> TRUE, set |-> resolveProjectNamesIn(layout, idents)]
    /\ UNCHANGED <<deps, pureVars, execVars, watchVars, graphVars, regVars, fsVars,
                   buildVars, devVars, pathVars, layout, idents,
                   shouldRunOut>>

NextResolve == CallResolveProjectNames

SpecResolve == InitResolve /\ [][NextResolve]_vars

\* The first rule that matches, in the order exact name, path, name suffix.
FirstRule(l, id) ==
    LET exact == {q \in Projects : NameIs(l, q, id)}
        byPath == {q \in Projects : PathIs(l, q, id) \/ AbsolutePathIs(l, q, id)}
        bySuffix == {q \in Projects : NameEndsWith(l, q, id)}
    IN IF exact # {} THEN FirstOf(exact)
       ELSE IF byPath # {} THEN FirstOf(byPath)
       ELSE FirstOf(bySuffix)

\* C27: the result of resolveProjectNames is the union, over the identifiers, of
\* what the first matching rule (exact name, then path, then name suffix) gives:
\* at most one project per identifier, none for an identifier matching no rule.
C27_FirstRuleResolves ==
    resolvedOut.called =>
        /\ resolvedOut.set = UNION {FirstRule(layout, id) : id \in idents}
        /\ Cardinality(resolvedOut.set) <= Cardinality(idents)

\* ------------------------------------ cli.ts: shouldRunGenerator, with deps

\* shouldRunGenerator for a generator whose deps array is non-empty:
\* affectedProjects.has(dep), or an affected project with
\* project.path === dep || project.path.endsWith('/' + dep)
shouldRunGeneratorIn(l, sourceDeps, affectedProjects) ==
    \E dep \in sourceDeps :
        \/ \E q \in affectedProjects : NameIs(l, q, dep)
        \/ \E q \in affectedProjects : PathIs(l, q, dep) \/ PathEndsWith(l, q, dep)

InitShouldRun ==
    /\ deps = [p \in Projects |-> {}]
    /\ changedProjects \in (SUBSET Projects) \ {{}}
    /\ affectedOut = [called |-> FALSE, set |-> {}]
    /\ planOut = [called |-> FALSE, ok |-> FALSE, waves |-> <<>>]
    /\ ExecIdle
    /\ dryRun = FALSE
    /\ WatchIdle
    /\ GraphIdle
    /\ RegIdle
    /\ WatcherIdle
    /\ BuildIdle
    /\ DevIdle
    /\ NameInputs

\* shouldRunGenerator is called with deps = idents and the affected set
\* changedProjects.
CallShouldRunGenerator ==
    /\ ~shouldRunOut.called
    /\ shouldRunOut' = [called |-> TRUE,
                        value |-> shouldRunGeneratorIn(layout, idents, changedProjects)]
    /\ UNCHANGED <<deps, pureVars, execVars, watchVars, graphVars, regVars, fsVars,
                   buildVars, devVars, pathVars, layout, idents,
                   resolvedOut>>

NextShouldRun == CallShouldRunGenerator

SpecShouldRun == InitShouldRun /\ [][NextShouldRun]_vars

\* C28: for non-empty deps, shouldRunGenerator returns true exactly when some
\* identifier of deps resolves, as resolveProjectNames resolves it, to a project
\* of the affected set.
C28_DepsResolveLikeChanged ==
    shouldRunOut.called =>
        (shouldRunOut.value <=>
            \E dep \in idents :
                resolveProjectNamesIn(layout, {dep}) \cap changedProjects # {})

\* ------------------------------------ cli.ts: plan and build with --changed

\* --changed values: none given, none that resolves, some that resolve, and a
\* mixture of both.
ChangedMixed == ChangedOptions \cup {{0, 1}, {0, MaxProjects}}

\* The plan action: as the build action up to the plan, except that a --changed
\* list of which nothing resolves ends the command with process.exit(1).
PlanCommand ==
    /\ bpc = "plan"
    /\ LET cycles == detectCycles(SortAsc(Projects), deps)
           changed == IF changedProjects = {} THEN Projects
                      ELSE resolveProjectNames(changedProjects)
           affected == getAffectedProjects(changed, rdepsOf(deps))
           plan == planWaves(affected, deps)
       IN IF ~cycles.null \/ changed = {}
          THEN /\ Exit(1)
               /\ UNCHANGED <<affectedOut, planOut>>
          ELSE /\ affectedOut' = [called |-> TRUE, set |-> affected]
               /\ planOut' = [called |-> TRUE, ok |-> plan.ok, waves |-> plan.waves]
               /\ Exit(IF plan.ok THEN 0 ELSE 1)
    /\ UNCHANGED <<deps, changedProjects, sources, execVars, genIdx, genLog>>
    /\ UNCHANGED <<filterSet, isBuilding, pendingChanges, buildCount, active, deliveries,
                   starts, releases, during, lastChanged>>
    /\ UNCHANGED <<graphVars, regVars, fsVars, restVars>>

InitCommands ==
    /\ deps \in BuildGraphs
    /\ changedProjects \in ChangedMixed
    /\ affectedOut = [called |-> FALSE, set |-> {}]
    /\ planOut = [called |-> FALSE, ok |-> FALSE, waves |-> <<>>]
    /\ ExecIdle
    /\ dryRun \in BOOLEAN
    /\ WatchIdle
    /\ GraphIdle
    /\ WatcherIdle
    /\ RestIdle
    /\ rootSources \in RootManifests
    /\ projectSources \in ProjectManifests
    /\ bpc \in {"plan", "start"}
    /\ genIdx = 0
    /\ genLog = <<>>
    /\ exitCode = -1

NextCommands ==
    \/ PlanCommand
    \/ NextBuild

SpecCommands == InitCommands /\ [][NextCommands]_vars

\* C29: with --changed given, the identifiers that do not resolve are dropped
\* and the affected set is computed from the rest; when none resolves the
\* command, plan or build, ends with a non-zero exit code and has neither
\* planned nor built anything.
C29_NoneResolvedIsFatal ==
    changedProjects # {} =>
        /\ affectedOut.called =>
              affectedOut.set = getAffectedProjects(resolveProjectNames(changedProjects),
                                                    rdepsOf(deps))
        /\ (resolveProjectNames(changedProjects) = {} /\ bpc = "exit") =>
              /\ exitCode # 0
              /\ ~planOut.called
              /\ begun = {}

\* ------------------------------- cli.ts: runSourceGeneratorsWithUI, run order

\* SourceConfig.target of the root manifest's generators: none, or the first
\* project.
TargetChoices == {0, 1}

InitGenOrder ==
    /\ deps \in BuildGraphs
    /\ changedProjects \in ChangedOptions
    /\ affectedOut = [called |-> FALSE, set |-> {}]
    /\ planOut = [called |-> FALSE, ok |-> FALSE, waves |-> <<>>]
    /\ ExecIdle
    /\ dryRun \in BOOLEAN
    /\ WatchIdle
    /\ GraphIdle
    /\ WatcherIdle
    /\ NameIdle
    /\ rootSources \in RootManifests
    /\ projectSources = [p \in Projects |-> <<>>]
    /\ targets \in [1..Len(rootSources) -> TargetChoices]
    /\ apps = {}
    /\ devScripts = {}
    /\ depsToBuilt = {}
    /\ devProcesses = <<>>
    /\ dpc = "off"
    /\ kills = <<>>
    /\ bpc = "start"
    /\ genIdx = 0
    /\ genLog = <<>>
    /\ exitCode = -1

SpecGenOrder == InitGenOrder /\ [][NextBuild]_vars

\* Generator `a` of the root manifest must wait for generator `b`: the deps of
\* `a` include the target of `b`, and not the other way round as well.
MustFollow(a, b) ==
    /\ a # b
    /\ targets[b] # 0 /\ targets[b] \in rootSources[a].deps
    /\ ~(targets[a] # 0 /\ targets[a] \in rootSources[b].deps)

\* Positions of genLog at which a generator is started.
GenStarts == {i \in 1..Len(genLog) : genLog[i].what \in {"spawn", "dry"}}

\* C21: among the generators run in one pass, a generator whose deps include the
\* target of another is started only after that other one has run, and
\* generators without such a relation are started in declaration order.
C21_DependencyGeneratorFirst ==
    \A i \in GenStarts, j \in GenStarts :
        i < j =>
            /\ ~MustFollow(genLog[i].key, genLog[j].key)
            /\ ~MustFollow(genLog[j].key, genLog[i].key) => genLog[i].key < genLog[j].key

\* ------------------------------------- cli.ts: watch action, depsToBuilt

\* A workspace deep enough for a dependency chain of every project.
DevProjects == 1..(MaxProjects + 1)

\* Acyclic graphs: a project depends on projects of lower number only.
DevGraphs ==
    {d \in [DevProjects -> SUBSET DevProjects] : \A p \in DevProjects : d[p] \subseteq 1..(p - 1)}

\* for (appName of resolvedApps) for (dep of graph.deps.get(appName))
\*   { depsToBuilt.add(dep); for (td of graph.deps.get(dep)) depsToBuilt.add(td) }
depsToBuiltOf(resolvedApps, d) ==
    UNION {d[a] \cup UNION {d[dep] : dep \in d[a]} : a \in resolvedApps}

InitDepsToBuilt ==
    /\ deps \in DevGraphs
    /\ PureIdle
    /\ ExecIdle
    /\ dryRun = FALSE
    /\ WatchIdle
    /\ GraphIdle
    /\ RegIdle
    /\ WatcherIdle
    /\ BuildIdle
    /\ NameIdle
    /\ targets = <<>>
    /\ apps \in (SUBSET DevProjects) \ {{}}
    /\ devScripts = {}
    /\ depsToBuilt = {}
    /\ devProcesses = <<>>
    /\ dpc = "apps"
    /\ kills = <<>>

\* The watch action computes depsToBuilt from resolvedApps.
ComputeDepsToBuilt ==
    /\ dpc = "apps"
    /\ depsToBuilt' = depsToBuiltOf(apps, deps)
    /\ dpc' = "deps"
    /\ UNCHANGED <<deps, pureVars, execVars, watchVars, graphVars, regVars, fsVars,
                   buildVars, nameVars, targets, apps, devScripts, devProcesses, kills>>

NextDepsToBuilt == ComputeDepsToBuilt

SpecDepsToBuilt == InitDepsToBuilt /\ [][NextDepsToBuilt]_vars

\* Everything reachable from S along d, S included.
RECURSIVE DependencyClosure(_, _)
DependencyClosure(S, d) ==
    LET n == S \cup UNION {d[x] : x \in S}
    IN IF n = S THEN S ELSE DependencyClosure(n, d)

\* C24: the set built before the dev servers start is the transitive closure of
\* the targets' dependencies, whatever the depth of the chains, without the
\* targets themselves.
C24_FullClosureBuilt ==
    dpc = "deps" =>
        depsToBuilt = DependencyClosure(UNION {deps[a] : a \in apps}, deps) \ apps

\* --------------------------- cli.ts: watch action with dev-server targets

\* [apps...] resolving to the last project, or to the first and the last.
AppChoices == {{MaxProjects}, {1, MaxProjects}}

\* Every project has a `dev` script, or only the last one.
DevScriptChoices == {Projects, {MaxProjects}}

\* Root manifests with at most one generator.
DevManifests == {m \in RootManifests : Len(m) <= 1}

\* The state at `if (apps.length > 0)`: graph loaded and acyclic, cleanup
\* registered for SIGINT and SIGTERM, no dev task spawned.
InitDev ==
    /\ deps \in WatchGraphs
    /\ PureIdle
    /\ ExecIdle
    /\ dryRun \in BOOLEAN
    /\ WatchIdle
    /\ GraphIdle
    /\ WatcherIdle
    /\ NameIdle
    /\ rootSources \in DevManifests
    /\ projectSources = [p \in Projects |-> <<>>]
    /\ bpc = "off"
    /\ genIdx = 0
    /\ genLog = <<>>
    /\ exitCode = -1
    /\ targets = <<>>
    /\ apps \in AppChoices
    /\ devScripts \in DevScriptChoices
    /\ depsToBuilt = {}
    /\ devProcesses = <<>>
    /\ dpc = "start"
    /\ kills = <<>>

\* The pre-dev build: depsToBuilt, createBuildPlan and the call of executePlan.
DevStart ==
    /\ dpc = "start"
    /\ LET built == depsToBuiltOf(apps, deps)
           plan == planWaves(built, deps)
       IN /\ depsToBuilt' = built
          /\ IF built # {} /\ ~plan.ok
             THEN /\ dpc' = "exit"
                  /\ exitCode' = 1
                  /\ UNCHANGED <<waves, projects, concurrency, epc, sources>>
             ELSE IF built # {} /\ Len(plan.waves) > 0
                  THEN /\ dpc' = "depbuild"
                       /\ waves' = plan.waves
                       /\ projects' = Projects
                       /\ concurrency' \in {1, MaxConcurrency}
                       /\ epc' = "call"
                       /\ UNCHANGED <<exitCode, sources>>
                  ELSE /\ dpc' = "generate"
                       /\ sources' = Registry(loadWorkgraphConfig(rootSources, <<>>,
                                                                  projectSources))
                       /\ UNCHANGED <<waves, projects, concurrency, epc, exitCode>>
    /\ UNCHANGED <<dryRun, waveIndex, itemIdx, executing, ready, settled, running,
                   waveResults, results, overallSuccess, currentStep, ret, events,
                   begun, ended, failed>>
    /\ UNCHANGED <<filterSet, isBuilding, pendingChanges, buildCount, active, deliveries,
                   starts, releases, during, lastChanged>>
    /\ UNCHANGED <<deps, pureVars, graphVars, regVars, fsVars, bpc, genIdx, genLog,
                   nameVars, targets, apps, devScripts, devProcesses, kills>>

AwaitedNot(r) == TRUE

\* const result = await executePlan(...)
Awaited(r) == r.returned

\* executePlan has returned, with or without success: on to the generators.
DepBuildReturns ==
    /\ dpc = "depbuild"
    /\ Awaited(ret)
    /\ dpc' = "generate"
    /\ sources' = Registry(loadWorkgraphConfig(rootSources, <<>>, projectSources))
    /\ UNCHANGED <<filterSet, isBuilding, pendingChanges, buildCount, active, deliveries,
                   starts, releases, during, lastChanged>>
    /\ UNCHANGED <<deps, pureVars, execVars, graphVars, regVars, fsVars, buildVars,
                   nameVars, targets, apps, devScripts, depsToBuilt, devProcesses, kills>>

\* The watch action after the generator loop `r`: suspended on a generator child,
\* or at the dev-server loop.
ContinueDev(r) ==
    /\ genLog' = r.log
    /\ genIdx' = r.at
    /\ dpc' = IF r.returned THEN "spawn" ELSE "gen"
    /\ UNCHANGED <<deps, pureVars, execVars, watchVars, graphVars, regVars, fsVars,
                   bpc, exitCode, nameVars, targets, apps, devScripts, depsToBuilt,
                   devProcesses, kills>>

\* runSourceGeneratorsWithUI(root, affected, ...) with affected = apps and depsToBuilt.
DevRunSourceGenerators ==
    /\ dpc = "generate"
    /\ ContinueDev(GeneratorLoop(genLog, 1, apps \cup depsToBuilt))

\* The running generator's child closes; a failure ends the pass and the watch
\* action continues anyway.
DevGeneratorClose(ok) ==
    /\ dpc = "gen"
    /\ IF AbortBuild(ok)
       THEN ContinueDev([log |-> Append(genLog, GenEvent(genIdx, "failed")), at |-> 0,
                         returned |-> TRUE])
       ELSE ContinueDev(GeneratorLoop(Append(genLog, GenEvent(genIdx, IF ok THEN "ok" ELSE "failed")),
                                      genIdx + 1, apps \cup depsToBuilt))

\* The targets that get a dev task, in the order of the loop.
DevTargets == SelectSeq(SortAsc(apps), LAMBDA a : a \in devScripts)

\* The dev-server loop: every target with a dev script is spawned and pushed to
\* devProcesses; a spawn that yields no pid throws and the command exits with 1.
SpawnDevServers ==
    /\ dpc = "spawn"
    /\ \E noPid \in 0..Len(DevTargets) :
          IF noPid = 0
          THEN /\ devProcesses' = DevTargets
               /\ dpc' = "watcher"
               /\ UNCHANGED exitCode
          ELSE /\ devProcesses' = SubSeq(DevTargets, 1, noPid - 1)
               /\ dpc' = "exit"
               /\ exitCode' = 1
    /\ UNCHANGED <<deps, pureVars, execVars, watchVars, graphVars, regVars, fsVars,
                   bpc, genIdx, genLog, nameVars, targets, apps, devScripts,
                   depsToBuilt, kills>>

\* The watch action is suspended or has returned: only then are signal handlers run.
AtAwait ==
    \/ dpc \in {"depbuild", "gen"}
    \/ dpc = "watcher" /\ watcherOn

\* What process.kill meets: the process group is there, only the process is, or
\* neither.
KillOutcomes == {"group", "process", "gone"}

KillTaskNoRetry(pid, outcome) == <<[pid |-> -pid, ok |-> outcome = "group"]>>

\* try { process.kill(-proc.pid, 'SIGKILL') } catch { try { process.kill(proc.pid, 'SIGKILL') } catch {} }
KillTask(pid, outcome) ==
    IF outcome = "group"
    THEN <<[pid |-> -pid, ok |-> TRUE]>>
    ELSE <<[pid |-> -pid, ok |-> FALSE], [pid |-> pid, ok |-> outcome = "process"]>>

\* for (const { proc, name } of devProcesses): the pid of a dev task is its index.
RECURSIVE KillAll(_, _)
KillAll(i, outcomes) ==
    IF i > Len(devProcesses) THEN <<>>
    ELSE KillTask(i, outcomes[i]) \o KillAll(i + 1, outcomes)

\* cleanup, the handler of SIGINT and SIGTERM.
cleanup ==
    /\ AtAwait
    /\ \E outcomes \in [1..Len(devProcesses) -> KillOutcomes] :
          kills' = KillAll(1, outcomes)
    /\ dpc' = "killed"
    /\ exitCode' = 0
    /\ UNCHANGED <<deps, pureVars, execVars, watchVars, graphVars, regVars, fsVars,
                   bpc, genIdx, genLog, nameVars, targets, apps, devScripts,
                   depsToBuilt, devProcesses>>

NextDev ==
    \/ DevStart
    \/ dpc = "depbuild" /\ NextExec
    \/ DepBuildReturns
    \/ DevRunSourceGenerators
    \/ \E ok \in BOOLEAN : DevGeneratorClose(ok)
    \/ SpawnDevServers
    \/ dpc = "watcher" /\ WatchCommand
    \/ dpc = "watcher" /\ watcherOn /\ NextWatch
    \/ cleanup

SpecDev == InitDev /\ [][NextDev]_vars

\* --------------------------------- properties: watch with dev-server targets

\* The pre-dev build is over: executePlan has returned and no build child runs.
PreDevBuildDone ==
    depsToBuiltOf(apps, deps) # {} => (ret.returned /\ running = {})

\* The generators of the root manifest that the targets and their dependencies trigger.
DevTriggered ==
    LET registry == Registry(loadWorkgraphConfig(rootSources, <<>>, projectSources))
    IN {g \in 1..Len(registry) :
           registry[g].triggers \cap (apps \cup depsToBuiltOf(apps, deps)) # {}}

\* The generator pass is over: no generator child runs, and every triggered
\* generator has been run unless one of them failed.
GeneratorPassDone ==
    /\ Count(genLog, "spawn") = Count(genLog, "ok") + Count(genLog, "failed")
    /\ \/ Count(genLog, "failed") > 0
       \/ \A g \in DevTriggered : \E i \in 1..Len(genLog) : genLog[i].key = rootSources[g].key

AllDevTasksStarted == \A a \in apps \cap devScripts : a \in Range(devProcesses)

\* C25: in watch with dev-server targets the generator pass starts only after
\* the dependency build has completed, dev tasks are spawned only after the
\* generator pass has completed, the watcher is created only after every
\* target's dev task has been spawned, and no change is delivered and no rebuild
\* starts before that.
C25_PhasesOrdered ==
    /\ genLog # <<>> => PreDevBuildDone
    /\ devProcesses # <<>> => (PreDevBuildDone /\ GeneratorPassDone)
    /\ watcherOn => (PreDevBuildDone /\ GeneratorPassDone /\ AllDevTasksStarted)
    /\ (deliveries > 0 \/ starts > 0 \/ isBuilding) => (watcherOn /\ AllDevTasksStarted)

\* A rebuild has started after a dependency build, a generator run and two dev
\* tasks.
C25_Witness ==
    /\ starts > 0
    /\ watcherOn
    /\ Len(devProcesses) = 2
    /\ Count(genLog, "ok") > 0
    /\ Len(ret.results) > 0

\* cleanup has sent SIGKILL to the process group of every dev task, and to the
\* process itself where that failed.
AllKilled ==
    \A i \in 1..Len(devProcesses) :
        \E k \in 1..Len(kills) :
            /\ kills[k].pid = -i
            /\ ~kills[k].ok => (k < Len(kills) /\ kills[k + 1].pid = i)

\* C26: after SIGINT or SIGTERM, every dev task spawned so far has been sent
\* SIGKILL on its negative pid, with a retry on the positive pid where that
\* failed, the exit code is 0, and the process takes no further step.
C26_SignalKillsAllAndExits ==
    /\ [](dpc = "killed" => (AllKilled /\ exitCode = 0))
    /\ [][dpc # "killed"]_vars

\* The signal arrived during a rebuild with a change pending, two dev tasks
\* were running and the process group of one of them was gone.
C26_Witness ==
    /\ dpc = "killed"
    /\ isBuilding
    /\ ~pendingChanges.null
    /\ Len(devProcesses) = 2
    /\ \E k \in 1..Len(kills) : ~kills[k].ok

\* ------------------------------------- properties: planWaves, induced subgraph

\* The graph without project q: no deps entry for q, and q in no dependency set.
RemoveProject(d, q) == [p \in (DOMAIN d) \ {q} |-> d[p] \ {q}]

\* C31: the plan for an affected set is the plan obtained after removing from
\* the graph any one project outside the affected set, deps entry and
\* occurrences in other dependency sets alike.
C31_PlanIgnoresOutsiders ==
    planOut.called =>
        \A q \in Projects \ changedProjects :
            \E r \in {planWaves(changedProjects, RemoveProject(deps, q))} :
                /\ r.ok = planOut.ok
                /\ r.waves = planOut.waves

\* A two-wave plan for a set one of whose members depends on a project outside it.
C31_Witness ==
    /\ planOut.called
    /\ planOut.ok
    /\ Len(planOut.waves) >= 2
    /\ \E q \in Projects \ changedProjects : \E p \in changedProjects : q \in deps[p]

\* The projects planned before wave k.
Earlier(ws, k) == UNION {Range(ws[j]) : j \in 1..(k - 1)}

\* C32: each wave of a plan is the maximal set of not yet planned projects whose
\* dependencies inside the affected set are all planned already; so a project
\* with no dependency inside the affected set is in the first wave, and a
\* project of a later wave has a dependency inside the affected set in an
\* earlier wave.
C32_WavesAreMaximal ==
    (planOut.called /\ planOut.ok) =>
        LET ws == planOut.waves
        IN /\ \A k \in 1..Len(ws) :
                Range(ws[k]) = {p \in changedProjects \ Earlier(ws, k) :
                                   deps[p] \cap changedProjects \subseteq Earlier(ws, k)}
           /\ \A p \in changedProjects :
                deps[p] \cap changedProjects = {} => (Len(ws) >= 1 /\ p \in Range(ws[1]))
           /\ \A k \in 2..Len(ws) : \A p \in Range(ws[k]) :
                deps[p] \cap changedProjects \cap Earlier(ws, k) # {}

\* A plan whose first wave holds two projects and whose second wave holds a
\* project that depends on only one of them.
C32_Witness ==
    /\ planOut.called
    /\ planOut.ok
    /\ Len(planOut.waves) >= 2
    /\ Len(planOut.waves[1]) >= 2
    /\ \E p \in Range(planOut.waves[2]) : ~(Range(planOut.waves[1]) \subseteq deps[p])

\* ------------------------------- source-scanner: loadWorkgraphConfig(root, projects)

\* Each project declares no generator, or one under the first root key, or one
\* under a key no root manifest uses.
MergeManifests ==
    [Projects -> {<<>>}
                 \cup {<<[key |-> k, deps |-> {}, within |-> {}, home |-> 0]>> :
                          k \in {1, MaxGenerators + 1}}]

\* A project's declarations as loadPackageWorkgraphConfig normalises them:
\* cwd and target are set to the declaring project.
Normalized(manifests) ==
    [p \in Projects |->
        [i \in 1..Len(manifests[p]) |-> [manifests[p][i] EXCEPT !.within = {p}, !.home = p]]]

InitMerge ==
    /\ deps = [p \in Projects |-> {}]
    /\ PureIdle
    /\ ExecIdle
    /\ dryRun = FALSE
    /\ WatchIdle
    /\ known = Projects
    /\ declared = {}
    /\ graphOut = [called |-> FALSE, deps |-> <<>>, rdeps |-> <<>>]
    /\ keysOrder \in Perms(Projects)
    /\ cyclesOut = [called |-> FALSE, null |-> TRUE, cycles |-> <<>>]
    /\ rootSources \in RootManifests
    /\ projectSources \in {Normalized(m) : m \in MergeManifests}
    /\ WatcherIdle
    /\ bpc = "load"
    /\ genIdx = 0
    /\ genLog = <<>>
    /\ exitCode = -1
    /\ RestIdle

\* loadWorkgraphConfig(root, projects), the projects map iterated in its
\* insertion order.
CallLoadWorkgraphConfig ==
    /\ bpc = "load"
    /\ bpc' = "loaded"
    /\ sources' = loadWorkgraphConfig(rootSources, keysOrder, projectSources)
    /\ UNCHANGED <<filterSet, isBuilding, pendingChanges, buildCount, active, deliveries,
                   starts, releases, during, lastChanged>>
    /\ UNCHANGED <<deps, pureVars, execVars, graphVars, regVars, fsVars, genIdx, genLog,
                   exitCode, restVars>>

NextMerge == CallLoadWorkgraphConfig

SpecMerge == InitMerge /\ [][NextMerge]_vars

RootDecls(k) == {rootSources[i] : i \in {j \in 1..Len(rootSources) : rootSources[j].key = k}}

ProjectDecls(k) ==
    UNION {{projectSources[p][i] : i \in {j \in 1..Len(projectSources[p]) :
                                             projectSources[p][j].key = k}} : p \in Projects}

Entries(k) == {sources[i] : i \in {j \in 1..Len(sources) : sources[j].key = k}}

\* C33: in the registry loadWorkgraphConfig returns, a key declared by the root
\* manifest and by a project manifest carries a project's declaration, a key
\* declared in one place only carries that declaration, and there is one entry
\* per declared key.
C33_ProjectOverridesRoot ==
    bpc = "loaded" =>
        \A k \in 1..(MaxGenerators + 1) :
            /\ Cardinality(Entries(k)) = (IF RootDecls(k) \cup ProjectDecls(k) = {} THEN 0 ELSE 1)
            /\ Cardinality({i \in 1..Len(sources) : sources[i].key = k}) <= 1
            /\ ProjectDecls(k) # {} => Entries(k) \subseteq ProjectDecls(k)
            /\ ProjectDecls(k) = {} => Entries(k) = RootDecls(k)

\* The root manifest and two projects declare the same key, and another key is
\* declared by the root manifest only.
C33_Witness ==
    /\ bpc = "loaded"
    /\ RootDecls(1) # {}
    /\ Cardinality(ProjectDecls(1)) >= 2
    /\ RootDecls(2) # {}
    /\ ProjectDecls(2) = {}

\* ------------------------------------------- properties: detectCycles, report

\* C34: every cycle detectCycles reports is a closed path of the graph: it has
\* at least two elements, its first and last elements are equal, and each
\* element is followed by one of its dependencies.
C34_ReportedCyclesAreReal ==
    cyclesOut.called =>
        \A c \in 1..Len(cyclesOut.cycles) :
            LET cyc == cyclesOut.cycles[c]
            IN /\ Len(cyc) >= 2
               /\ cyc[1] = cyc[Len(cyc)]
               /\ \A i \in 1..(Len(cyc) - 1) : cyc[i + 1] \in deps[cyc[i]]

\* A cycle through all projects is reported, entered from a project that had
\* been visited through another root's dependency.
C34_Witness ==
    /\ cyclesOut.called
    /\ \E c \in 1..Len(cyclesOut.cycles) : Len(cyclesOut.cycles[c]) = MaxProjects + 1
    /\ Len(cyclesOut.cycles) >= 2

\* C35: the list of cycles detectCycles reports is the one it reports when the
\* projects map is iterated in name order, whatever the order in which the
\* projects were inserted.
C35_CyclesIndependentOfInsertion ==
    cyclesOut.called =>
        cyclesOut.cycles = detectCycles(SortAsc(Projects), deps).cycles

\* ------------------------------------- workspace.ts: getProjectFromPath

\* Directory and file names: the first is a string prefix of the second.
SegmentNames == {<<"a">>, <<"a", "b">>}

\* Directories one or two levels below the root.
Directories == {<<n>> : n \in SegmentNames} \cup {<<n, m>> : n \in SegmentNames, m \in SegmentNames}

\* Files in the root directory or in one of the directories.
FilePaths == {d \o <<n>> : d \in Directories \cup {<<>>}, n \in SegmentNames}

\* The absolute path as a string: each segment preceded by path.sep.
RECURSIVE AbsolutePath(_)
AbsolutePath(segments) ==
    IF segments = <<>> THEN <<>>
    ELSE <<"/">> \o Head(segments) \o AbsolutePath(Tail(segments))

\* str.startsWith(prefix)
startsWith(str, prefix) ==
    /\ Len(prefix) <= Len(str)
    /\ SubSeq(str, 1, Len(prefix)) = prefix

DirPrefixNoSep(absolutePath) == absolutePath

\* project.absolutePath + path.sep
DirPrefix(absolutePath) == absolutePath \o <<"/">>

\* for (const [name, project] of projects) { if (startsWith) if (length > longestLength) ... }
getProjectFromPathIn(file, dirs) ==
    LET absoluteFilePath == AbsolutePath(file)
        loop[i \in 0..Len(dirs)] ==
            IF i = 0 THEN [longestMatch |-> 0, longestLength |-> 0]
            ELSE LET prev == loop[i - 1]
                     absolutePath == AbsolutePath(dirs[i])
                 IN IF /\ startsWith(absoluteFilePath, DirPrefix(absolutePath))
                       /\ Len(absolutePath) > prev.longestLength
                    THEN [longestMatch |-> i, longestLength |-> Len(absolutePath)]
                    ELSE prev
    IN loop[Len(dirs)].longestMatch

InitPath ==
    /\ deps = [p \in Projects |-> {}]
    /\ PureIdle
    /\ ExecIdle
    /\ dryRun = FALSE
    /\ WatchIdle
    /\ GraphIdle
    /\ RegIdle
    /\ WatcherIdle
    /\ BuildIdle
    /\ DevIdle
    /\ layout = <<>>
    /\ idents = {}
    /\ resolvedOut = [called |-> FALSE, set |-> {}]
    /\ shouldRunOut = [called |-> FALSE, value |-> FALSE]
    /\ projectDirs \in {f \in [Projects -> Directories] :
                           \A p, q \in Projects : p # q => f[p] # f[q]}
    /\ filePath \in FilePaths
    /\ ownerOut = [called |-> FALSE, project |-> 0]

CallGetProjectFromPath ==
    /\ ~ownerOut.called
    /\ ownerOut' = [called |-> TRUE, project |-> getProjectFromPathIn(filePath, projectDirs)]
    /\ UNCHANGED <<deps, pureVars, execVars, watchVars, graphVars, regVars, fsVars,
                   buildVars, devVars, layout, idents, resolvedOut, shouldRunOut,
                   projectDirs, filePath>>

NextPath == CallGetProjectFromPath

SpecPath == InitPath /\ [][NextPath]_vars

\* The file lies in the directory, at any depth.
Contains(dir, file) ==
    /\ Len(dir) < Len(file)
    /\ SubSeq(file, 1, Len(dir)) = dir

\* C36: getProjectFromPath returns the project whose directory contains the
\* file and is the innermost such directory, and no project when no project
\* directory contains the file; in particular never a project whose directory
\* name is only a string prefix of the directory the file is in.
C36_InnermostContainingProject ==
    ownerOut.called =>
        LET holders == {p \in Projects : Contains(projectDirs[p], filePath)}
        IN /\ holders = {} => ownerOut.project = 0
           /\ holders # {} =>
                 /\ ownerOut.project \in holders
                 /\ \A q \in holders : Len(projectDirs[q]) <= Len(projectDirs[ownerOut.project])

\* The file is in a project nested in another project, and a third project's
\* directory name is a string prefix of the name of the directory the file is in.
C36_Witness ==
    /\ ownerOut.called
    /\ ownerOut.project # 0
    /\ \E q \in Projects : /\ q # ownerOut.project
                           /\ Contains(projectDirs[q], filePath)
    /\ \E q \in Projects : /\ ~Contains(projectDirs[q], filePath)
                           /\ startsWith(AbsolutePath(filePath), AbsolutePath(projectDirs[q]))

\* --------------------------------- cli.ts: watch rebuild with --filter

\* No --filter, a pattern matching the first project only, or a pattern matching
\* the first and the last project but not the ones between them.
FilterChoices == Filters \cup {{1, MaxProjects}}

\* A watch without generators; onChange is about to deliver changedProjects.
InitFilter ==
    /\ deps \in WatchGraphs
    /\ changedProjects \in ChangeSets
    /\ affectedOut = [called |-> FALSE, set |-> {}]
    /\ planOut = [called |-> FALSE, ok |-> FALSE, waves |-> <<>>]
    /\ ExecIdle
    /\ dryRun \in BOOLEAN
    /\ filterSet \in FilterChoices
    /\ sources = <<>>
    /\ isBuilding = FALSE
    /\ pendingChanges = [null |-> TRUE, set |-> {}]
    /\ buildCount = 0
    /\ active = {}
    /\ deliveries = 0
    /\ starts = 0
    /\ releases = 0
    /\ during = {}
    /\ lastChanged = {}
    /\ MoreIdle

\* handleChanges from its entry to the call of executePlan: affected,
\* filteredAffected, createBuildPlan; no generator is configured.
FilteredRebuild ==
    /\ ~isBuilding
    /\ deliveries = 0
    /\ deliveries' = 1
    /\ starts' = 1
    /\ lastChanged' = changedProjects
    /\ LET affected == getAffectedProjects(changedProjects, rdepsOf(deps))
           filteredAffected == {p \in affected : matchesFilter(p)}
           plan == planWaves(filteredAffected, deps)
       IN /\ affectedOut' = [called |-> TRUE, set |-> filteredAffected]
          /\ IF filteredAffected = {}
             THEN /\ UNCHANGED <<isBuilding, buildCount, planOut, waves, projects,
                                 concurrency, epc>>
                  /\ releases' = 1
             ELSE /\ isBuilding' = TRUE
                  /\ buildCount' = buildCount + 1
                  /\ planOut' = [called |-> TRUE, ok |-> plan.ok, waves |-> plan.waves]
                  /\ waves' = plan.waves
                  /\ projects' = Projects
                  /\ concurrency' \in {1, MaxConcurrency}
                  /\ epc' = "call"
                  /\ UNCHANGED releases
    /\ UNCHANGED <<dryRun, waveIndex, itemIdx, executing, ready, settled, running,
                   waveResults, results, overallSuccess, currentStep, ret, events,
                   begun, ended, failed>>
    /\ UNCHANGED <<deps, changedProjects, filterSet, sources, pendingChanges, active,
                   during, moreVars>>

NextFilter ==
    \/ FilteredRebuild
    \/ NextExec

SpecFilter == InitFilter /\ [][NextFilter]_vars

\* C37: in a filtered rebuild a project's build begins only after the builds of
\* the projects of the same rebuild that it depends on, directly or through
\* projects the filter excludes, have ended.
C37_FilteredOrderRespectsFullGraph ==
    \A p \in begun :
        \A q \in (DependencyClosure(deps[p], deps) \cap affectedOut.set) \ {p} :
            q \in ended

\* ------------------------------------- properties: watch loop, pending changes

\* C38: a project delivered while a build is in progress, and so queued in
\* pendingChanges, is eventually in the changed set of a build attempt that
\* begins later, with no further delivery needed, whatever the outcome of the
\* build in progress.
C38_DeliveredEventuallyBuilt ==
    \A p \in Projects :
        (~pendingChanges.null /\ p \in pendingChanges.set)
            ~> (p \in lastChanged /\ p \notin pendingChanges.set)

\* ------------------------------------- properties: watcher.ts, batches

\* Time passes and due timers fire.
SpecWatcherFair == SpecWatcher /\ WF_vars(Tick) /\ WF_vars(TimerFires)

\* C39: a file event appends its path to the buffer and changes nothing else of
\* it; the buffer changes otherwise only when a timer expiry takes the whole of
\* it as one batch and leaves it empty, which happens only after debounceMs
\* without an event; and a non-empty buffer is eventually flushed.
C39_EveryEventInOneBatch ==
    /\ [][fsEvents' # fsEvents =>
            /\ Len(changedFiles') = Len(changedFiles) + 1
            /\ SubSeq(changedFiles', 1, Len(changedFiles)) = changedFiles]_vars
    /\ [][(changedFiles' # changedFiles /\ fsEvents' = fsEvents) =>
            /\ expiries' = expiries + 1
            /\ sinceEvent >= debounceMs
            /\ lastFlush'.batch = changedFiles
            /\ changedFiles' = <<>>]_vars
    /\ [][lastFlush' # lastFlush => lastFlush'.batch = changedFiles]_vars
    /\ (changedFiles # <<>>) ~> (changedFiles = <<>>)

\* A second batch has been flushed, and an event has arrived since.
C39_Witness ==
    /\ expiries >= 2
    /\ lastFlush.batch # <<>>
    /\ changedFiles # <<>>
    /\ fsEvents = MaxEvents

\* ------------------------- executor variant: array-based runWithConcurrency

\* The promises of executing whose .then callback has run.
SettledPromises == executing \cap ResultProjects(waveResults)

\* executing.filter((p) => p.settled): nothing assigns the settled property, so
\* it is undefined on every promise and the filter keeps none.
Completed(ex) == {}

\* One iteration of the for loop: fn(item) runs to its first await (or
\* returns), p is pushed, and the length test decides whether the loop awaits
\* Promise.race.
runWithConcurrencyArray ==
    /\ epc = "loop"
    /\ itemIdx <= Len(waves[waveIndex])
    /\ LET item == waves[waveIndex][itemIdx]
       IN /\ IF item \notin projects
             THEN /\ ready' = Append(ready, [project |-> item, success |-> FALSE])
                  /\ ended' = ended \cup {item}
                  /\ UNCHANGED <<currentStep, events, running>>
             ELSE /\ currentStep' = currentStep + 1
                  /\ events' = Append(events, StartEvent(item))
                  /\ IF dryRun
                     THEN /\ ready' = Append(ready, [project |-> item, success |-> TRUE])
                          /\ ended' = ended \cup {item}
                          /\ UNCHANGED running
                     ELSE /\ running' = running \cup {item}
                          /\ UNCHANGED <<ready, ended>>
          /\ begun' = begun \cup {item}
          /\ executing' = executing \cup {item}
          /\ itemIdx' = itemIdx + 1
          /\ epc' = IF AtLimit(Cardinality(executing'), concurrency)
                    THEN "race" ELSE "loop"
    /\ UNCHANGED <<deps, pureVars, watchVars, waves, projects, concurrency, dryRun, waveIndex,
                   settled, waveResults, results, overallSuccess, ret, failed>>
    /\ UNCHANGED moreVars

\* The .then callback of p: results.push(result).
ArrayThenCallback ==
    /\ epc \in {"race", "all"}
    /\ ready # <<>>
    /\ waveResults' = Append(waveResults, Head(ready))
    /\ ready' = Tail(ready)
    /\ UNCHANGED <<deps, pureVars, watchVars, waves, projects, concurrency, dryRun, epc,
                   waveIndex, itemIdx, executing, settled, running, results,
                   overallSuccess, currentStep, ret, events, begun, ended, failed>>
    /\ UNCHANGED moreVars

\* Promise.race(executing) resolves as soon as one promise of the array is
\* settled, also one that settled before the call.
RaceResolved == epc = "race" /\ ready = <<>> /\ SettledPromises # {}

\* The loop goes on after the race: the completed promises are spliced out.
ArrayRaceResume ==
    /\ RaceResolved
    /\ executing' = executing \ Completed(executing)
    /\ epc' = "loop"
    /\ UNCHANGED <<deps, pureVars, watchVars, waves, projects, concurrency, dryRun, waveIndex,
                   itemIdx, ready, settled, running, waveResults, results,
                   overallSuccess, currentStep, ret, events, begun, ended, failed>>
    /\ UNCHANGED moreVars

\* A child's 'close' event; the continuation of a resolved race runs first.
ArrayChildClose(p, ok) ==
    /\ ~RaceResolved
    /\ ChildClose(p, ok)

\* Promise.all(executing) has resolved: runWithConcurrency returns, executePlan
\* pushes the wave's results and breaks, goes to the next wave, or returns.
ArrayWaveEnd ==
    /\ epc = "all"
    /\ ready = <<>>
    /\ executing \subseteq SettledPromises
    /\ results' = results \o waveResults
    /\ IF StopAfterWave(overallSuccess) \/ waveIndex = Len(waves)
       THEN /\ epc' = "done"
            /\ ret' = [returned |-> TRUE, success |-> overallSuccess,
                       results |-> results']
            /\ UNCHANGED <<waveIndex, itemIdx, waveResults, executing>>
       ELSE /\ epc' = "loop"
            /\ waveIndex' = waveIndex + 1
            /\ itemIdx' = 1
            /\ waveResults' = <<>>
            /\ executing' = {}
            /\ UNCHANGED ret
    /\ UNCHANGED <<deps, pureVars, watchVars, waves, projects, concurrency, dryRun, ready,
                   settled, running, overallSuccess, currentStep, events, begun,
                   ended, failed>>
    /\ UNCHANGED moreVars

NextArray ==
    \/ executePlan
    \/ runWithConcurrencyArray
    \/ AwaitAll
    \/ ArrayThenCallback
    \/ ArrayRaceResume
    \/ ArrayWaveEnd
    \/ \E p \in Projects, ok \in BOOLEAN : ArrayChildClose(p, ok)

SpecArray == InitExec /\ [][NextArray]_vars

\* C40: with the array-based runWithConcurrency, never more than concurrency
\* project builds are in flight at the same time.
C40_ArrayLimitHolds == Cardinality(running) <= concurrency

=============================================================================
